---- MODULE Spec2Model ----
(***************************************************************************)
(* File-based IPC between the Balatro MCP server and the game mod.         *)
(*                                                                         *)
(* The server process (BalatroFileIO, BalatroStateManager,                 *)
(* BalatroActionHandler) and the peer process (the mod) share three files  *)
(* in one directory.  The server is a single asyncio event loop: its       *)
(* coroutines interleave only at asyncio.sleep, but every file system call *)
(* interleaves with the peer process.                                      *)
(***************************************************************************)
EXTENDS Integers, Naturals, Sequences, FiniteSets, TLC

(***************************************************************************)
(* Bounds of the model.                                                    *)
(***************************************************************************)
\* highest sequence id the peer puts in an envelope
MaxPeerSeq == 2
\* number of commands the server writes in one run
MaxCmd == 2
\* length of wait_for_action_result's timeout, in poll intervals
TimeoutTicks == 1
\* number of projection changes applied when update_state is driven alone
MaxUpdates == 2

\* wait_for_state_change gives up at WaitTicks ticks of its clock
WaitTicks == 2

\* file ages, in units of the cleanup limit, run from 0 to MaxAge
MaxAge == 2

(***************************************************************************)
(* schemas.py: phases, message types, snapshots, actions, results.         *)
(***************************************************************************)
HAND_SELECTION == "hand_selection"
SHOP == "shop"
BLIND_SELECTION == "blind_selection"
SCORING == "scoring"

GAME_STATE == "game_state"
ACTION_COMMAND == "action_command"
ACTION_RESULT == "action_result"

\* Optional[...] = None
None == [kind |-> "None"]

\* the fields GameState(**data) requires
GameStateFields ==
    {"session_id", "current_phase", "ante", "money", "hands_remaining",
     "discards_remaining", "hand_cards", "jokers", "consumables",
     "shop_contents", "available_actions"}

\* the field ActionResult(**data) requires
ActionResultFields == {"success"}

\* a hand-selection snapshot
SnapHand ==
    [session_id |-> "s1", current_phase |-> HAND_SELECTION, ante |-> 1, money |-> 4,
     hands_remaining |-> 1, discards_remaining |-> 1,
     hand_cards |-> <<"c1", "c2">>, jokers |-> <<"j1">>, consumables |-> <<>>,
     shop_contents |-> <<>>, available_actions |-> {"play_hand", "discard_cards"},
     post_hand_joker_reorder_available |-> FALSE]

\* the same projection as SnapHand, other hand cards and legal actions
SnapHand2 ==
    [SnapHand EXCEPT !.hand_cards = <<"c3", "c4">>,
                     !.available_actions = {"discard_cards"}]

\* a shop snapshot
SnapShop ==
    [session_id |-> "s1", current_phase |-> SHOP, ante |-> 1, money |-> 4,
     hands_remaining |-> 1, discards_remaining |-> 1,
     hand_cards |-> <<"c1", "c2">>, jokers |-> <<"j1">>, consumables |-> <<>>,
     shop_contents |-> <<[index |-> 0, cost |-> 3]>>,
     available_actions |-> {"buy_item"},
     post_hand_joker_reorder_available |-> FALSE]

Snapshots == {SnapHand, SnapHand2, SnapShop}

\* a "data" object that lacks required fields
BadData == [kind |-> "incomplete"]

\* an envelope without (or with an empty) "data" member
NoData == [kind |-> "nodata"]

ActPlay == [action_type |-> "play_hand", card_indices |-> <<0>>]
ActBuy == [action_type |-> "buy_item", shop_index |-> 0]
Actions == {ActPlay, ActBuy}

ResOk == [success |-> TRUE, error_message |-> "", new_state |-> None]
ResFail == [success |-> FALSE, error_message |-> "peer: cannot do that", new_state |-> None]
PeerResults == {ResOk, ResFail}

\* ActionResult(success=False, error_message=msg)
Failure(msg) == [success |-> FALSE, error_message |-> msg, new_state |-> None]

(***************************************************************************)
(* Files: absent, a complete envelope, or bytes that are no JSON document. *)
(***************************************************************************)
Absent == [kind |-> "absent"]
Garbage == [kind |-> "garbage"]
\* a file opened for writing whose content is not yet complete
Partial == [kind |-> "partial"]

\* for_cmd is not on the wire: it records which command the writer answered
Envelope(seq, mtype, data, forCmd) ==
    [kind |-> "envelope", sequence_id |-> seq, message_type |-> mtype,
     data |-> data, for_cmd |-> forCmd]

\* json.load succeeds
IsJson(file) == file.kind = "envelope"

\* a name that has become a symbolic link leading out of the base directory
Link == [kind |-> "link"]

\* _validate_file_operation: FALSE when it raises ValueError
validate_file_operation(file) == file.kind # "link"

(***************************************************************************)
(* file_io.py: sequence-numbered reads.  A read yields                     *)
(*   ret  : "none" (returns None), "value" (returns val), "raise" (the     *)
(*          parse raised) or "reject" (the file check raised)              *)
(*   last : the entry of _last_read_sequence after the call                *)
(*   seq  : the sequence id of the envelope the call examined (0: none)    *)
(*   src  : the command the returned envelope answered (0: none)           *)
(***************************************************************************)
ReadOutcome(ret, last, val, seq, src) ==
    [ret |-> ret, last |-> last, val |-> val, seq |-> seq, src |-> src]

\* `if sequence_id <= last_read: return None  # Already processed`
AlreadyProcessedStrict(seq, last) == seq < last
AlreadyProcessed(seq, last) == seq <= last

\* GameState(**game_state_data): pydantic checks the required fields
ValidGameState(data) == GameStateFields \subseteq DOMAIN data

\* ActionResult(**result_data)
ValidActionResult(data) == ActionResultFields \subseteq DOMAIN data

read_game_state(file, last) ==
    \* ValueError is none of the exceptions caught
    IF ~validate_file_operation(file) THEN ReadOutcome("reject", last, None, 0, 0)
    ELSE IF file.kind = "absent" THEN ReadOutcome("none", last, None, 0, 0)
    ELSE IF ~IsJson(file) THEN ReadOutcome("none", last, None, 0, 0)
    ELSE IF AlreadyProcessed(file.sequence_id, last)
        THEN ReadOutcome("none", last, None, file.sequence_id, 0)
    \* from here on _last_read_sequence["game_state"] = sequence_id
    ELSE IF file.message_type # GAME_STATE
        THEN ReadOutcome("none", file.sequence_id, None, file.sequence_id, 0)
    ELSE IF file.data = NoData
        THEN ReadOutcome("none", file.sequence_id, None, file.sequence_id, 0)
    ELSE IF ~ValidGameState(file.data)
        \* pydantic's ValidationError is none of the exceptions caught
        THEN ReadOutcome("raise", file.sequence_id, None, file.sequence_id, 0)
    ELSE ReadOutcome("value", file.sequence_id, file.data, file.sequence_id, 0)

\* up to the unlink, which is a later system call
read_action_result(file, last) ==
    IF ~validate_file_operation(file) THEN ReadOutcome("reject", last, None, 0, 0)
    ELSE IF file.kind = "absent" THEN ReadOutcome("none", last, None, 0, 0)
    ELSE IF ~IsJson(file) THEN ReadOutcome("none", last, None, 0, 0)
    ELSE IF AlreadyProcessed(file.sequence_id, last)
        THEN ReadOutcome("none", last, None, file.sequence_id, 0)
    \* from here on _last_read_sequence["action_result"] = sequence_id
    ELSE IF file.message_type # ACTION_RESULT
        THEN ReadOutcome("none", file.sequence_id, None, file.sequence_id, 0)
    \* data.get("data", {}): an absent member is the empty object
    ELSE IF file.data = NoData \/ ~ValidActionResult(file.data)
        THEN ReadOutcome("raise", file.sequence_id, None, file.sequence_id, 0)
    ELSE ReadOutcome("value", file.sequence_id, file.data, file.sequence_id,
                     file.for_cmd)

(***************************************************************************)
(* state_manager.py.  The cache is the record                              *)
(*   [current_state, last_update_time, state_changed];                     *)
(* last_update_time 0 is None, and each datetime.now() is later than every *)
(* earlier one.                                                            *)
(***************************************************************************)
Cache(state, time, changed) ==
    [current_state |-> state, last_update_time |-> time, state_changed |-> changed]

\* a comparison of the whole snapshots
states_equal_deep(state1, state2) == state1 = state2

states_equal(state1, state2) ==
    IF state1 = None /\ state2 = None THEN TRUE
    ELSE IF state1 = None \/ state2 = None THEN FALSE
    ELSE /\ state1.session_id = state2.session_id
         /\ state1.current_phase = state2.current_phase
         /\ state1.ante = state2.ante
         /\ state1.money = state2.money
         /\ state1.hands_remaining = state2.hands_remaining
         /\ state1.discards_remaining = state2.discards_remaining
         /\ Len(state1.hand_cards) = Len(state2.hand_cards)
         /\ Len(state1.jokers) = Len(state2.jokers)
         /\ state1.post_hand_joker_reorder_available
               = state2.post_hand_joker_reorder_available

update_state(cache, new_state) ==
    IF ~states_equal(cache.current_state, new_state)
    THEN Cache(new_state, cache.last_update_time + 1, TRUE)
    ELSE cache

\* `except Exception`: a raising read changes nothing
update_from_file(cache, read) ==
    IF read.ret = "value" THEN update_state(cache, read.val) ELSE cache

\* what a read that raised has raised: the file check a ValueError, pydantic
\* a ValidationError
ReadRaised(read) ==
    IF read.ret = "reject" THEN "ValueError"
    ELSE IF read.ret = "raise" THEN "ValidationError"
    ELSE "none"

\* a handler for the system's errors only
update_from_file_catches_io(exc) == exc \in {"OSError"}

\* `except Exception as e` of _update_from_file
update_from_file_catches(exc) == exc \in {"OSError", "ValueError", "ValidationError"}

\* the exception _update_from_file lets through to its caller, "none" when
\* it returns
update_from_file_raises(read) ==
    IF ReadRaised(read) # "none" /\ ~update_from_file_catches(ReadRaised(read))
    THEN ReadRaised(read)
    ELSE "none"

\* how a caller of _update_from_file comes back: with `ret`, or with the
\* exception that passed through
Fetched(op, read, ret) ==
    IF update_from_file_raises(read) # "none"
    THEN [op |-> op, read |-> read.ret, kind |-> "raised", ret |-> None]
    ELSE [op |-> op, read |-> read.ret, kind |-> "returned", ret |-> ret]

\* the log lines of the state manager
LogStateUpdated == [level |-> "info", message |-> "State updated"]
LogUpdateError == [level |-> "error", message |-> "Error updating state from file"]

\* update_state logs `State updated` when it replaced the snapshot, and
\* nothing else
update_state_log(cache, new_state) ==
    IF ~states_equal(cache.current_state, new_state) THEN LogStateUpdated ELSE None

\* _update_from_file adds `logger.error` when the read raised
update_from_file_log(cache, read) ==
    IF read.ret \in {"raise", "reject"} THEN LogUpdateError
    ELSE IF read.ret = "value" THEN update_state_log(cache, read.val)
    ELSE None

(***************************************************************************)
(* state_manager.py: StateValidator.                                       *)
(***************************************************************************)
validate_session_consistency(old_state, new_state) ==
    old_state.session_id = new_state.session_id

validate_ante_progression(old_state, new_state) == new_state.ante >= old_state.ante

\* a phase rule that lets no game leave the shop for a hand
validate_phase_transition_graph(old_state, new_state) ==
    ~(old_state.current_phase = SHOP /\ new_state.current_phase = HAND_SELECTION)

validate_phase_transition(old_state, new_state) == TRUE

validate_state_transition(old_state, new_state) ==
    IF old_state = None THEN TRUE
    ELSE /\ validate_session_consistency(old_state, new_state)
         /\ validate_ante_progression(old_state, new_state)
         /\ validate_phase_transition(old_state, new_state)

(***************************************************************************)
(* action_handler.py: the validators.  Python indices count from 0.        *)
(***************************************************************************)
IndexInRange(idx, size) == 0 <= idx /\ idx < size

Elements(s) == {s[i] : i \in 1..Len(s)}

\* an index check with no lower bound
validate_play_hand_no_floor(action, state) ==
    IF state.current_phase # HAND_SELECTION THEN FALSE
    ELSE IF state.hands_remaining <= 0 THEN FALSE
    ELSE IF ~(\A idx \in Elements(action.card_indices) :
                  idx < Len(state.hand_cards)) THEN FALSE
    ELSE IF action.card_indices = <<>> THEN FALSE
    ELSE TRUE

validate_play_hand(action, state) ==
    IF state.current_phase # HAND_SELECTION THEN FALSE
    ELSE IF state.hands_remaining <= 0 THEN FALSE
    ELSE IF ~(\A idx \in Elements(action.card_indices) :
                  IndexInRange(idx, Len(state.hand_cards))) THEN FALSE
    ELSE IF action.card_indices = <<>> THEN FALSE
    ELSE TRUE

validate_discard_cards(action, state) ==
    IF state.current_phase # HAND_SELECTION THEN FALSE
    ELSE IF state.discards_remaining <= 0 THEN FALSE
    ELSE IF ~(\A idx \in Elements(action.card_indices) :
                  IndexInRange(idx, Len(state.hand_cards))) THEN FALSE
    ELSE IF action.card_indices = <<>> THEN FALSE
    ELSE TRUE

validate_go_to_shop(action, state) == state.current_phase = HAND_SELECTION

\* a purchase check that forgets the price
validate_buy_item_free(action, state) ==
    IF state.current_phase # SHOP THEN FALSE
    ELSE IF ~IndexInRange(action.shop_index, Len(state.shop_contents)) THEN FALSE
    ELSE TRUE

validate_buy_item(action, state) ==
    IF state.current_phase # SHOP THEN FALSE
    ELSE IF ~IndexInRange(action.shop_index, Len(state.shop_contents)) THEN FALSE
    ELSE IF state.money < state.shop_contents[action.shop_index + 1].cost THEN FALSE
    ELSE TRUE

validate_sell_joker(action, state) ==
    IF state.current_phase # SHOP THEN FALSE
    ELSE IF ~IndexInRange(action.joker_index, Len(state.jokers)) THEN FALSE
    ELSE TRUE

validate_sell_consumable(action, state) ==
    IF state.current_phase # SHOP THEN FALSE
    ELSE IF ~IndexInRange(action.consumable_index, Len(state.consumables)) THEN FALSE
    ELSE TRUE

\* a reorder check that compares the lengths only
validate_reorder_jokers_length(action, state) ==
    IF ~state.post_hand_joker_reorder_available THEN FALSE
    ELSE IF Len(action.new_order) # Len(state.jokers) THEN FALSE
    ELSE TRUE

validate_reorder_jokers(action, state) ==
    IF ~state.post_hand_joker_reorder_available THEN FALSE
    ELSE IF Len(action.new_order) # Len(state.jokers) THEN FALSE
    ELSE IF Elements(action.new_order) # 0..(Len(state.jokers) - 1) THEN FALSE
    ELSE TRUE

validate_select_blind(action, state) == state.current_phase = BLIND_SELECTION

\* a pack rule bound to the shop
validate_select_pack_offer_shop(action, state) == state.current_phase = SHOP

validate_select_pack_offer(action, state) == TRUE

validate_reroll_boss(action, state) == state.current_phase = BLIND_SELECTION

\* a reroll check without the phase
validate_reroll_shop_any_phase(action, state) == TRUE

validate_reroll_shop(action, state) ==
    IF state.current_phase # SHOP THEN FALSE ELSE TRUE

validate_sort_hand(action, state) == state.current_phase = HAND_SELECTION

validate_use_consumable(action, state) ==
    IF action.item_id \notin {state.consumables[i].id : i \in 1..Len(state.consumables)}
    THEN FALSE
    ELSE TRUE

\* self.action_validators
action_validators ==
    {"play_hand", "discard_cards", "go_to_shop", "buy_item", "sell_joker",
     "sell_consumable", "reorder_jokers", "select_blind", "select_pack_offer",
     "reroll_boss", "reroll_shop", "sort_hand_by_rank", "sort_hand_by_suit",
     "use_consumable"}

Validator(action, state) ==
    CASE action.action_type = "play_hand" -> validate_play_hand(action, state)
      [] action.action_type = "discard_cards" -> validate_discard_cards(action, state)
      [] action.action_type = "go_to_shop" -> validate_go_to_shop(action, state)
      [] action.action_type = "buy_item" -> validate_buy_item(action, state)
      [] action.action_type = "sell_joker" -> validate_sell_joker(action, state)
      [] action.action_type = "sell_consumable" -> validate_sell_consumable(action, state)
      [] action.action_type = "reorder_jokers" -> validate_reorder_jokers(action, state)
      [] action.action_type = "select_blind" -> validate_select_blind(action, state)
      [] action.action_type = "select_pack_offer" -> validate_select_pack_offer(action, state)
      [] action.action_type = "reroll_boss" -> validate_reroll_boss(action, state)
      [] action.action_type = "reroll_shop" -> validate_reroll_shop(action, state)
      [] action.action_type = "sort_hand_by_rank" -> validate_sort_hand(action, state)
      [] action.action_type = "sort_hand_by_suit" -> validate_sort_hand(action, state)
      [] action.action_type = "use_consumable" -> validate_use_consumable(action, state)

\* a gate that goes to the specific rule at once
validate_action_unlisted(action, current_state) ==
    IF action.action_type \in action_validators THEN Validator(action, current_state)
    ELSE TRUE

validate_action(action, current_state) ==
    IF action.action_type \notin current_state.available_actions THEN FALSE
    ELSE IF action.action_type \in action_validators THEN Validator(action, current_state)
    ELSE TRUE

\* `validator = self.action_validators.get(action_type); if validator:` is
\* reached only past the membership check
ValidatorConsulted(action, current_state) ==
    /\ action.action_type \in current_state.available_actions
    /\ action.action_type \in action_validators

\* the member of the action the specific rule reads once its tests of the
\* snapshot have let it through; "none" when it reads none
RuleReads(action, state) ==
    CASE action.action_type = "play_hand" ->
             IF state.current_phase # HAND_SELECTION \/ state.hands_remaining <= 0
             THEN "none" ELSE "card_indices"
      [] action.action_type = "discard_cards" ->
             IF state.current_phase # HAND_SELECTION \/ state.discards_remaining <= 0
             THEN "none" ELSE "card_indices"
      [] action.action_type = "buy_item" ->
             IF state.current_phase # SHOP THEN "none" ELSE "shop_index"
      [] action.action_type = "sell_joker" ->
             IF state.current_phase # SHOP THEN "none" ELSE "joker_index"
      [] action.action_type = "sell_consumable" ->
             IF state.current_phase # SHOP THEN "none" ELSE "consumable_index"
      [] action.action_type = "reorder_jokers" ->
             IF ~state.post_hand_joker_reorder_available THEN "none" ELSE "new_order"
      [] action.action_type = "use_consumable" -> "item_id"
      [] OTHER -> "none"

\* what the specific rule raises on this action: an AttributeError when the
\* member it reads is missing, a TypeError when the member is None where a
\* list or a number is iterated, measured or compared; "none" when the rule
\* returns or is not consulted.  An action names the members that hold None
\* in its set `is_none`
RuleRaises(action, state) ==
    LET member == RuleReads(action, state) IN
    IF ~ValidatorConsulted(action, state) \/ member = "none" THEN "none"
    ELSE IF member \in DOMAIN action THEN "none"
    ELSE IF "is_none" \in DOMAIN action /\ member \in action.is_none THEN "TypeError"
    ELSE "AttributeError"

\* a validate_action without its handler
validate_action_catches_none(exc) == FALSE

\* `except Exception as e` of validate_action
validate_action_catches(exc) == exc \in {"AttributeError", "TypeError"}

\* validate_action with its try: how the call comes back
validate_action_try(action, current_state) ==
    LET exc == RuleRaises(action, current_state) IN
    IF exc = "none"
    THEN [kind |-> "returned", ret |-> validate_action(action, current_state)]
    ELSE IF validate_action_catches(exc) THEN [kind |-> "returned", ret |-> FALSE]
    ELSE [kind |-> "raised", ret |-> FALSE]

(***************************************************************************)
(* State.                                                                  *)
(***************************************************************************)
VARIABLES
    \* the directory: game_state.json, actions.json, action_results.json
    \* and actions.tmp
    game_state_file, actions_file, action_results_file, temp_file,
    \* BalatroFileIO._sequence_id and ._last_read_sequence
    sequence_id, last_read_sequence,
    \* BalatroStateManager's cache
    state_manager,
    \* the frame of the latest execute_action call; at pc "idle" the call
    \* has returned `result`
    call,
    \* the peer: the last command it took, and whether it still owes a result
    peer,
    \* history: the last call of each read, the sequence id of the value each
    \* read returned last, the snapshot read_game_state returned last, and the
    \* commands whose results execute_action handed to its caller
    gs_read, ar_read, returned_seq, accepted, handed,
    \* history: what the state manager's last update wrote to its log
    logged,
    \* history: the number of projection changes is_state_changed has
    \* reported, and the last is_state_changed call
    reported, polled,
    \* history: the last call of the state manager that pulled the state
    \* file, and how it came back to its caller
    fetched,
    \* history: the last validate_action call made on its own
    gate,
    \* the server's running flag with the monitor task: its position, whether
    \* its cancellation is requested and whether its present iteration raised
    monitor,
    \* history: the last cleanup_old_files call
    cleaned,
    \* history: the last validation of a path or of a state transition made
    \* on its own
    validated,
    \* the latest wait_for_state_change call: its position, the clock it
    \* read last, what it returned and the update time of the cache when it
    \* began
    waiter

vars == <<game_state_file, actions_file, action_results_file, temp_file,
          sequence_id, last_read_sequence, state_manager, call, peer,
          gs_read, ar_read, returned_seq, accepted, handed, logged, reported,
          polled, fetched, gate, monitor, cleaned, validated, waiter>>

files == <<game_state_file, actions_file, action_results_file, temp_file>>

\* the history that only read_game_state writes
state_history == <<gs_read, accepted, logged, fetched>>

\* the history that only read_action_result and its caller write
result_history == <<ar_read, handed>>

\* the log of one read: what it returned, the sequence id of the envelope it
\* examined, the last-accepted id before the call and the id of the value the
\* read had returned before
ReadLog(read, before, prev) ==
    [ret |-> read.ret, seq |-> read.seq, before |-> before, prev |-> prev]

\* BalatroMCPServer.__init__: `_running = False`, `_monitoring_task = None`
NotStarted == [pc |-> "none", running |-> FALSE, cancel |-> FALSE, raised |-> FALSE]

\* no wait_for_state_change call yet
NotWaiting == [pc |-> "none", elapsed |-> 0, ret |-> FALSE, since |-> 0]

\* no call of the state manager yet
NotFetched == [op |-> "none", read |-> "none", kind |-> "returned", ret |-> None]

\* no call yet.  cmd: the sequence id of the command the call wrote (0: none);
\* src: the command the peer answered with `result` (0: none, or the result
\* is the server's own)
Idle ==
    [pc |-> "idle", action |-> None, state |-> None, cmd |-> 0, elapsed |-> 0,
     result |-> None, src |-> 0]

Init ==
    /\ game_state_file = Absent
    /\ actions_file = Absent
    /\ action_results_file = Absent
    /\ temp_file = Absent
    /\ sequence_id = 0
    /\ last_read_sequence = [game_state |-> 0, action_result |-> 0]
    /\ state_manager = Cache(None, 0, FALSE)
    /\ call = Idle
    /\ peer = [taken |-> 0, busy |-> FALSE]
    /\ gs_read = [ret |-> "none", seq |-> 0, before |-> 0, prev |-> 0]
    /\ ar_read = [ret |-> "none", seq |-> 0, before |-> 0, prev |-> 0]
    /\ returned_seq = [game_state |-> 0, action_result |-> 0]
    /\ accepted = None
    /\ logged = None
    /\ handed = {}
    /\ reported = 0
    /\ polled = [ret |-> FALSE, changes |-> 0]
    /\ fetched = NotFetched
    /\ monitor = NotStarted
    /\ waiter = NotWaiting
    /\ cleaned = None
    /\ validated = None
    /\ gate = None

(***************************************************************************)
(* BalatroStateManager._update_from_file on the present state file.        *)
(***************************************************************************)
\* `last_read = self._last_read_sequence.get("game_state", 0)`
StateReadOtherKey == read_game_state(game_state_file, last_read_sequence.action_result)
StateRead == read_game_state(game_state_file, last_read_sequence.game_state)

Pulled == update_from_file(state_manager, StateRead)

\* every projection change stamps a later update time, so the stamp counts
\* the changes applied so far; these are the ones not yet reported after
\* this pull
ChangesAfterPull == Pulled.last_update_time - reported

\* what a pull leaves in the channel and in the history
PullRecords ==
    /\ last_read_sequence' = [last_read_sequence EXCEPT !.game_state = StateRead.last]
    /\ gs_read' = ReadLog(StateRead, last_read_sequence.game_state,
                          returned_seq.game_state)
    /\ returned_seq' = IF StateRead.ret = "value"
                       THEN [returned_seq EXCEPT !.game_state = StateRead.seq]
                       ELSE returned_seq
    /\ accepted' = IF StateRead.ret = "value" THEN StateRead.val ELSE accepted
    /\ logged' = update_from_file_log(state_manager, StateRead)

\* no coroutine of the server runs while execute_action is between two awaits
\* that suspend it; asyncio.sleep is the only one
LoopFree == call.pc \in {"idle", "sleep"}

(***************************************************************************)
(* BalatroStateManager.get_current_state, called by the resource handlers. *)
(***************************************************************************)
\* what the call does to the channel and the cache
current_state_call ==
    /\ PullRecords
    /\ state_manager' = Pulled
    /\ fetched' = Fetched("get_current_state", StateRead, Pulled.current_state)

get_current_state ==
    /\ LoopFree
    /\ current_state_call
    /\ UNCHANGED <<files, sequence_id, call, peer, result_history, reported, polled,
                   gate, monitor, cleaned, validated, waiter>>

(***************************************************************************)
(* BalatroStateManager.is_state_changed, called by the monitor loop.       *)
(***************************************************************************)
\* `if self._state_changed: self._state_changed = False; return True`
FlagAfterCheckKept(flag) == flag
FlagAfterCheck(flag) == FALSE

\* what the call does to the channel and the cache
state_changed_call ==
    /\ PullRecords
    /\ state_manager' = [Pulled EXCEPT !.state_changed = FlagAfterCheck(@)]
    /\ polled' = [ret |-> Pulled.state_changed, changes |-> ChangesAfterPull]
    /\ fetched' = Fetched("is_state_changed", StateRead,
                          [kind |-> "bool", value |-> Pulled.state_changed])
    /\ reported' = IF Pulled.state_changed THEN Pulled.last_update_time ELSE reported

is_state_changed ==
    /\ LoopFree
    /\ state_changed_call
    /\ UNCHANGED <<files, sequence_id, call, peer, result_history, gate, monitor, cleaned, validated,
                   waiter>>

(***************************************************************************)
(* BalatroActionHandler.execute_action, one action per step the peer can   *)
(* interleave with.                                                        *)
(***************************************************************************)
NotValidMessage(action) ==
    IF action.action_type = "play_hand"
    THEN "Action play_hand is not valid in current state"
    ELSE IF action.action_type = "buy_item"
    THEN "Action buy_item is not valid in current state"
    ELSE "Action is not valid in current state"

\* the two early returns; None: execution goes on to write_action
EarlyReturnUngated(action, current_state) ==
    IF current_state = None THEN Failure("No game state available")
    ELSE None

EarlyReturn(action, current_state) ==
    IF current_state = None THEN Failure("No game state available")
    ELSE IF ~validate_action(action, current_state) THEN Failure(NotValidMessage(action))
    ELSE None

\* str(e) in the message of the last handler
InternalError(exc) ==
    IF exc = "ValueError" THEN "Internal error: file check"
    ELSE IF exc = "ValidationError" THEN "Internal error: validation error"
    ELSE "Internal error: write_action raised"

\* a handler for the errors of the write only
execute_action_catches_write(exc) == exc \in {"OSError", "TypeError"}

\* `except Exception as e` of execute_action
execute_action_catches(exc) ==
    exc \in {"OSError", "TypeError", "ValueError", "ValidationError"}

\* what the caller of execute_action gets when `exc` is raised inside the
\* try: the handler's ActionResult, or the exception itself
Handled(exc) ==
    IF execute_action_catches(exc) THEN Failure(InternalError(exc))
    ELSE [kind |-> "raised", exc |-> exc]

\* execute_action returns `result`; src is the command the peer answered
\* with it
Return(result, src) ==
    call' = [Idle EXCEPT !.cmd = call.cmd, !.result = result, !.src = src]

\* a counter that stays at its first value
get_next_sequence_id_held(id) == IF id = 0 THEN 1 ELSE id

\* `self._sequence_id += 1; return self._sequence_id`
get_next_sequence_id(id) == id + 1

\* the envelope write_action builds
message_data == Envelope(call.cmd, ACTION_COMMAND, call.action, 0)

\* a write_action that checks the final name only
write_action_checked_final(final, temp) == validate_file_operation(final)

\* write_action checks actions.json and actions.tmp before anything else
write_action_checked(final, temp) ==
    validate_file_operation(final) /\ validate_file_operation(temp)

\* an execute_action that numbers the command before it asks the gate
ReturnEarlyNumbered(early) ==
    /\ call' = [Idle EXCEPT !.result = early]
    /\ sequence_id' = get_next_sequence_id(sequence_id)

\* `return ActionResult(success=False, ...)` ahead of write_action: the
\* channel's counter is not reached
ReturnEarly(early) ==
    /\ call' = [Idle EXCEPT !.result = early]
    /\ UNCHANGED sequence_id

\* get_current_state, validate_action and write_action up to message_data
execute_action_begin(action) ==
    /\ call.pc = "idle"
    /\ sequence_id < MaxCmd
    /\ PullRecords
    /\ state_manager' = Pulled
    /\ fetched' = Fetched("get_current_state", StateRead, Pulled.current_state)
    /\ LET early == EarlyReturn(action, Pulled.current_state) IN
       IF early # None
       THEN ReturnEarly(early)
       ELSE IF ~write_action_checked(actions_file, temp_file)
       \* the ValueError passes write_action's handler and reaches
       \* execute_action's `except Exception`
       THEN /\ call' = [Idle EXCEPT !.result = Handled("ValueError")]
            /\ UNCHANGED sequence_id
       ELSE /\ sequence_id' = get_next_sequence_id(sequence_id)
            /\ call' = [Idle EXCEPT !.pc = "open", !.action = action,
                                    !.state = Pulled.current_state,
                                    !.cmd = get_next_sequence_id(sequence_id)]
    /\ UNCHANGED <<files, peer, result_history, reported, polled, gate, monitor, cleaned, validated,
                   waiter>>

\* what the steps of write_action can raise: action.model_dump() and json.dump
\* a TypeError, the system calls an OSError (IOError is its alias)
SerializationErrors == {"TypeError"}
SystemErrors == {"OSError"}

\* a handler for the system's errors only
write_action_catches_system(exc) == exc \in {"OSError"}

\* `except (IOError, TypeError)`
write_action_catches(exc) == exc \in {"OSError", "TypeError"}

\* an execute_action that starts the write again when it failed
WriteFailedRetry(exc) == call' = [call EXCEPT !.pc = "open"]

\* write_action returns False and execute_action reports it; an exception
\* that write_action lets through reaches execute_action's `except Exception`
WriteFailed(exc) ==
    Return(IF write_action_catches(exc)
           THEN Failure("Failed to write action to file")
           ELSE Handled(exc), 0)

\* a write that opens actions.json itself
write_action_open_in_place ==
    /\ call.pc = "open"
    /\ actions_file' = Partial
    /\ call' = [call EXCEPT !.pc = "dump"]
    /\ UNCHANGED <<game_state_file, temp_file, action_results_file, sequence_id,
                   last_read_sequence, state_manager, peer, state_history,
                   result_history, returned_seq, reported, polled, gate, monitor, cleaned, validated,
                   waiter>>

\* `with open(temp_file, "w")`: the temporary file exists and is empty
write_action_open ==
    /\ call.pc = "open"
    /\ \/ /\ temp_file' = Partial
          /\ call' = [call EXCEPT !.pc = "dump"]
       \/ \* action.model_dump() or open() fails
          /\ \E exc \in SerializationErrors \cup SystemErrors : WriteFailed(exc)
          /\ UNCHANGED temp_file
    /\ UNCHANGED <<game_state_file, actions_file, action_results_file, sequence_id,
                   last_read_sequence, state_manager, peer, state_history,
                   result_history, returned_seq, reported, polled, gate, monitor, cleaned, validated,
                   waiter>>

\* json.dump and the close of the temporary file
write_action_dump ==
    /\ call.pc = "dump"
    /\ \/ /\ temp_file' = message_data
          /\ call' = [call EXCEPT !.pc = "replace"]
       \/ /\ \E exc \in SerializationErrors \cup SystemErrors : WriteFailed(exc)
          /\ UNCHANGED temp_file
    /\ UNCHANGED <<game_state_file, actions_file, action_results_file, sequence_id,
                   last_read_sequence, state_manager, peer, state_history,
                   result_history, returned_seq, reported, polled, gate, monitor, cleaned, validated,
                   waiter>>

\* temp_file.replace(self.actions_file), then wait_for_action_result starts
write_action_replace ==
    /\ call.pc = "replace"
    /\ \/ /\ actions_file' = temp_file
          /\ temp_file' = Absent
          /\ call' = [call EXCEPT !.pc = "poll", !.elapsed = 0]
       \/ /\ \E exc \in SystemErrors : WriteFailed(exc)
          /\ UNCHANGED <<actions_file, temp_file>>
    /\ UNCHANGED <<game_state_file, action_results_file, sequence_id,
                   last_read_sequence, state_manager, peer, state_history,
                   result_history, returned_seq, reported, polled, gate, monitor, cleaned, validated,
                   waiter>>

ResultRead == read_action_result(action_results_file, last_read_sequence.action_result)

\* one turn of wait_for_action_result's loop: the test of the clock and
\* read_action_result up to its unlink
wait_for_action_result_poll ==
    /\ call.pc = "poll"
    /\ IF call.elapsed >= TimeoutTicks
       THEN /\ Return(Failure("Timeout waiting for action result"), 0)
            /\ UNCHANGED <<last_read_sequence, ar_read, returned_seq>>
       ELSE /\ last_read_sequence' =
                   [last_read_sequence EXCEPT !.action_result = ResultRead.last]
            /\ ar_read' = ReadLog(ResultRead, last_read_sequence.action_result,
                                  returned_seq.action_result)
            /\ returned_seq' = IF ResultRead.ret = "value"
                               THEN [returned_seq EXCEPT !.action_result = ResultRead.seq]
                               ELSE returned_seq
            /\ CASE ResultRead.ret = "value" ->
                      call' = [call EXCEPT !.pc = "unlink",
                                           !.result = ResultRead.val,
                                           !.src = ResultRead.src]
                 [] ResultRead.ret = "none" ->
                      call' = [call EXCEPT !.pc = "sleep"]
                 [] ResultRead.ret = "raise" ->
                      \* `except Exception` of execute_action
                      Return(Handled(ReadRaised(ResultRead)), 0)
                 [] ResultRead.ret = "reject" ->
                      Return(Handled(ReadRaised(ResultRead)), 0)
    /\ UNCHANGED <<files, sequence_id, state_manager, peer, state_history,
                   handed, reported, polled, gate, monitor, cleaned, validated,
                   waiter>>

\* a read that leaves the result file in place
read_action_result_keep ==
    /\ call.pc = "unlink"
    /\ Return(call.result, call.src)
    /\ handed' = handed \cup {call.src}
    /\ UNCHANGED <<files, sequence_id, last_read_sequence, state_manager, peer,
                   state_history, ar_read, returned_seq, reported, polled,
                   gate, monitor, cleaned, validated, waiter>>

\* self.action_results_file.unlink(), FileNotFoundError passed over; the
\* result goes back through wait_for_action_result to execute_action's caller
read_action_result_unlink ==
    /\ call.pc = "unlink"
    /\ action_results_file' = Absent
    /\ Return(call.result, call.src)
    /\ handed' = handed \cup {call.src}
    /\ UNCHANGED <<game_state_file, actions_file, temp_file, sequence_id,
                   last_read_sequence, state_manager, peer, state_history,
                   ar_read, returned_seq, reported, polled, gate, monitor, cleaned, validated,
                   waiter>>

\* asyncio.sleep(0.1): at least one poll interval passes
wait_for_action_result_sleep ==
    /\ call.pc = "sleep"
    /\ \E t \in (call.elapsed + 1)..TimeoutTicks :
           call' = [call EXCEPT !.pc = "poll", !.elapsed = t]
    /\ UNCHANGED <<files, sequence_id, last_read_sequence, state_manager,
                   peer, state_history, result_history, returned_seq, reported,
                   polled, gate, monitor, cleaned, validated, waiter>>

(***************************************************************************)
(* file_io.py: validation of the base path.  A string is the sequence of   *)
(* its characters, a control character is written by its escape, and a     *)
(* value that is no string is the record of its type.                      *)
(***************************************************************************)
MAX_PATH_LENGTH == 260

Str(chars) == [type |-> "str", chars |-> chars]

Separators == {"/", "\\"}

\* of [\x00-\x1f\x7f-\x9f], the characters the alphabet has
ControlCharacters == {"\\x00", "\\x1f", "\\x7f", "\\x9f"}

\* [<>"|?*]
ReservedCharacters == {"<", ">", "\"", "|", "?", "*"}

UpperOf ==
    [a |-> "A", c |-> "C", j |-> "J", l |-> "L", m |-> "M", n |-> "N", o |-> "O",
     p |-> "P", s |-> "S", t |-> "T", u |-> "U", x |-> "X"]

\* re.IGNORECASE
Upper(c) == IF c \in DOMAIN UpperOf THEN UpperOf[c] ELSE c

\* CON|PRN|AUX|NUL|COM[1-9]|LPT[1-9]
DeviceNames ==
    {<<"C", "O", "N">>, <<"P", "R", "N">>, <<"A", "U", "X">>, <<"N", "U", "L">>}
    \cup {<<"C", "O", "M", d>> : d \in {"1", "2", "3", "4", "5", "6", "7", "8", "9"}}
    \cup {<<"L", "P", "T", d>> : d \in {"1", "2", "3", "4", "5", "6", "7", "8", "9"}}

\* `for pattern in self.BLOCKED_PATTERNS: if re.search(...)`
BLOCKED_PATTERNS(path) ==
    \* r"\.\.[\\/]"
    \/ \E i \in 1..(Len(path) - 2) :
          path[i] = "." /\ path[i + 1] = "." /\ path[i + 2] \in Separators
    \* r"[\\/]\.\.[\\/]"
    \/ \E i \in 1..(Len(path) - 3) :
          /\ path[i] \in Separators
          /\ path[i + 1] = "." /\ path[i + 2] = "."
          /\ path[i + 3] \in Separators
    \* r"[\\/]\.\.$"
    \/ /\ Len(path) >= 3
       /\ path[Len(path) - 2] \in Separators
       /\ path[Len(path) - 1] = "." /\ path[Len(path)] = "."
    \* r"^\.\.[\\/]"
    \/ /\ Len(path) >= 3
       /\ path[1] = "." /\ path[2] = "."
       /\ path[3] \in Separators
    \* r"^\.\.?$"
    \/ path = <<".">> \/ path = <<".", ".">>
    \* r"[\x00-\x1f\x7f-\x9f]"
    \/ \E i \in 1..Len(path) : path[i] \in ControlCharacters
    \* r'[<>"|?*]'
    \/ \E i \in 1..Len(path) : path[i] \in ReservedCharacters
    \* r"(?:^|[\\/])(?:CON|PRN|AUX|NUL|COM[1-9]|LPT[1-9])(?:\..*)?$"
    \/ \E i \in 1..Len(path), name \in DeviceNames :
          /\ i = 1 \/ path[i - 1] \in Separators
          /\ i + Len(name) - 1 <= Len(path)
          /\ \A k \in 1..Len(name) : Upper(path[i + k - 1]) = name[k]
          /\ \/ i + Len(name) = Len(path) + 1
             \/ path[i + Len(name)] = "."

\* `".." in path_obj.parts`: pathlib splits at "/", on nt at "\\" too
DotDotInParts(path, platform) ==
    LET separators == IF platform = "nt" THEN Separators ELSE {"/"} IN
    \E i \in 1..(Len(path) - 1) :
        /\ path[i] = "." /\ path[i + 1] = "."
        /\ i = 1 \/ path[i - 1] \in separators
        /\ i + 1 = Len(path) \/ path[i + 2] \in separators

\* path_obj.is_absolute(): a leading "/" on posix; on nt a drive letter or a
\* share, which no path of the alphabet has
is_absolute(path, platform) == platform = "posix" /\ path[1] = "/"

Rejected == [ok |-> FALSE, ret |-> None]

\* a limit that takes the paths of exactly MAX_PATH_LENGTH too
PathTooLongInclusive(path) == Len(path) >= MAX_PATH_LENGTH

\* `if len(path) > self.MAX_PATH_LENGTH`
PathTooLong(path) == Len(path) > MAX_PATH_LENGTH

\* _validate_and_sanitize_path(path): ok is FALSE when it raises ValueError.
\* `resolved` is where path_obj.resolve() leads: "inside" the working
\* directory, "outside" it, outside it under a name with a temp or test
\* marker ("outside_temp"), or "error" when resolve() raises
validate_and_sanitize_path(value, platform, resolved) ==
    IF value.type # "str" THEN Rejected
    ELSE IF value.chars = <<>> THEN Rejected
    ELSE IF PathTooLong(value.chars) THEN Rejected
    ELSE IF BLOCKED_PATTERNS(value.chars) THEN Rejected
    ELSE IF DotDotInParts(value.chars, platform) THEN Rejected
    ELSE IF resolved = "error" THEN Rejected
    ELSE IF resolved = "outside" THEN Rejected
    ELSE IF is_absolute(value.chars, platform)
        \* `return str(resolved_path)`
        THEN [ok |-> TRUE, ret |-> [form |-> "resolved", of |-> value.chars]]
    \* `return path  # Return original relative path`
    ELSE [ok |-> TRUE, ret |-> [form |-> "original", of |-> value.chars]]

\* BalatroFileIO(base_path): the validation, then base_path.mkdir; the
\* object exists when neither raised
BalatroFileIO_init(value, platform, resolved, mkdir) ==
    LET validated_path == validate_and_sanitize_path(value, platform, resolved) IN
    [ok |-> validated_path.ok,
     ret |-> validated_path.ret,
     constructed |-> validated_path.ok /\ mkdir = "ok"]

(***************************************************************************)
(* file_io.py: _validate_file_operation on paths.  The resolved paths are  *)
(* what Path.resolve() gives: absolute, "/" between the segments, none at  *)
(* the end.                                                                *)
(***************************************************************************)
ALLOWED_EXTENSIONS == {<<".", "j", "s", "o", "n">>, <<".", "t", "m", "p">>}

\* str.lower()
Lower(c) ==
    IF \E l \in DOMAIN UpperOf : UpperOf[l] = c
    THEN CHOOSE l \in DOMAIN UpperOf : UpperOf[l] = c
    ELSE c

\* Path.suffix: the name from its last dot on, unless that dot opens or
\* closes the name
PathSuffix(path) ==
    LET seps == {i \in 1..Len(path) : path[i] = "/"}
        start == IF seps = {} THEN 0 ELSE CHOOSE i \in seps : \A j \in seps : j <= i
        \* Path.name
        name == SubSeq(path, start + 1, Len(path))
        dots == {i \in 1..Len(name) : name[i] = "."}
        last == IF dots = {} THEN 0 ELSE CHOOSE i \in dots : \A j \in dots : j <= i
    IN IF 1 < last /\ last < Len(name) THEN SubSeq(name, last, Len(name)) ELSE <<>>

\* _validate_file_operation(file_path): TRUE when it returns, FALSE when it
\* raises ValueError.  `resolve` is "OSError" when Path.resolve() raises,
\* is_symlink what resolved_path.is_symlink() answers
validate_file_operation_paths(file_path, resolved_path, base_resolved, is_symlink, resolve) ==
    IF resolve # "ok" THEN FALSE
    \* `str(resolved_path).startswith(str(base_resolved))`
    ELSE IF ~(/\ Len(base_resolved) <= Len(resolved_path)
              /\ SubSeq(resolved_path, 1, Len(base_resolved)) = base_resolved)
        THEN FALSE
    \* `file_path.suffix and file_path.suffix.lower() not in ALLOWED_EXTENSIONS`
    ELSE IF /\ PathSuffix(file_path) # <<>>
            /\ [k \in 1..Len(PathSuffix(file_path)) |-> Lower(PathSuffix(file_path)[k])]
                  \notin ALLOWED_EXTENSIONS
        THEN FALSE
    ELSE IF is_symlink THEN FALSE
    ELSE TRUE

(***************************************************************************)
(* BalatroFileIO.cleanup_old_files.  The three files are taken in the      *)
(* order of the code; `age` gives the seconds since each file was last     *)
(* modified and `fails` names the file whose stat() or unlink() raises an  *)
(* OSError ("none": no system call fails).                                 *)
(***************************************************************************)
CleanupOrder == <<"game_state", "actions", "action_results">>

ChannelFiles ==
    [game_state |-> game_state_file, actions |-> actions_file,
     action_results |-> action_results_file]

\* the file check passed and `file_path.exists()`: stat() is called
CleanupStats(file) == validate_file_operation(file) /\ file.kind # "absent"

\* `except Exception as e` around the loop
cleanup_catches(exc) == exc \in {"OSError", "ValueError"}

\* the position in the loop at which the OSError is raised; 0 when every
\* file is processed
CleanupAbortsAt(fs, fails) ==
    IF \E i \in 1..3 : CleanupOrder[i] = fails /\ CleanupStats(fs[fails])
    THEN CHOOSE i \in 1..3 : CleanupOrder[i] = fails
    ELSE 0

\* the files after the call, and whether the call raised to its caller
cleanup_old_files(fs, age, max_age_seconds, fails) ==
    LET stop == CleanupAbortsAt(fs, fails)
        reached(i) == stop = 0 \/ i < stop
        after == [name \in DOMAIN fs |->
                    LET i == CHOOSE j \in 1..3 : CleanupOrder[j] = name IN
                    IF /\ reached(i)
                       /\ CleanupStats(fs[name])
                       \* `if file_age > max_age_seconds`
                       /\ age[name] > max_age_seconds
                    THEN Absent
                    ELSE fs[name]]
    IN [files |-> after,
        raised |-> stop # 0 /\ ~cleanup_catches("OSError")]

\* the ages and limits the clock can show
Ages == [{"game_state", "actions", "action_results"} -> 0..MaxAge]

\* what a call leaves in the directory and in the history
cleanup_call(age, max_age_seconds, fails) ==
    LET done == cleanup_old_files(ChannelFiles, age, max_age_seconds, fails) IN
    /\ game_state_file' = done.files.game_state
    /\ actions_file' = done.files.actions
    /\ action_results_file' = done.files.action_results
    /\ cleaned' = [kind |-> "cleaned", before |-> ChannelFiles, age |-> age,
                   max_age_seconds |-> max_age_seconds, fails |-> fails,
                   after |-> done.files, raised |-> done.raised]
    /\ UNCHANGED temp_file

(***************************************************************************)
(* main.py: start, stop and the monitor task.  The three calls of one      *)
(* iteration are one step each: the task is not suspended between them,    *)
(* but the peer, another process, runs meanwhile.  The task is suspended   *)
(* in asyncio.sleep only, so stop() runs only then.                        *)
(***************************************************************************)
\* BalatroMCPServer.start
server_start ==
    /\ monitor.pc = "none"
    /\ monitor' = [monitor EXCEPT !.running = TRUE, !.pc = "check"]
    /\ UNCHANGED <<files, sequence_id, last_read_sequence, state_manager, call,
                   peer, state_history, result_history, returned_seq, reported,
                   polled, gate, cleaned, validated, waiter>>

\* BalatroMCPServer.stop: `_running = False`, then the task is cancelled
server_stop ==
    /\ monitor.pc = "sleep"
    /\ ~monitor.cancel
    /\ monitor' = [monitor EXCEPT !.running = FALSE, !.cancel = TRUE]
    /\ UNCHANGED <<files, sequence_id, last_read_sequence, state_manager, call,
                   peer, state_history, result_history, returned_seq, reported,
                   polled, gate, cleaned, validated, waiter>>

\* a loop with no handler
monitor_catches_none(exc) == FALSE

\* `except Exception as e` of the loop
monitor_catches(exc) == exc \in {"Exception"}

\* a call of the iteration raises: the handler logs it and the task goes on
\* to its sleep, or the exception ends the task
monitor_raises(exc) ==
    monitor' = IF monitor_catches(exc)
               THEN [monitor EXCEPT !.pc = "sleep", !.raised = TRUE]
               ELSE [monitor EXCEPT !.pc = "crashed", !.raised = TRUE]

\* `if await self.state_manager.is_state_changed():`
monitor_check ==
    /\ monitor.pc = "check"
    /\ LoopFree
    /\ \/ /\ state_changed_call
          /\ monitor' = [monitor EXCEPT
                            !.pc = IF Pulled.state_changed THEN "summary"
                                   ELSE "cleanup"]
       \/ /\ monitor_raises("Exception")
          /\ UNCHANGED <<last_read_sequence, state_manager, state_history,
                         returned_seq, reported, polled>>
    /\ UNCHANGED <<files, sequence_id, call, peer, result_history, gate,
                   cleaned, validated, waiter>>

\* `summary = await self.state_manager.get_state_summary()`, which calls
\* get_current_state
monitor_summary ==
    /\ monitor.pc = "summary"
    /\ \/ /\ current_state_call
          /\ monitor' = [monitor EXCEPT !.pc = "cleanup"]
       \/ /\ monitor_raises("Exception")
          /\ UNCHANGED <<last_read_sequence, state_manager, state_history,
                         returned_seq>>
    /\ UNCHANGED <<files, sequence_id, call, peer, result_history, reported,
                   polled, gate, cleaned, validated, waiter>>

\* `await self.file_io.cleanup_old_files()`: max_age_seconds = 300, here
\* MaxAge - 1
monitor_cleanup ==
    /\ monitor.pc = "cleanup"
    /\ \/ /\ \E a \in 0..MaxAge, fails \in {"none", "game_state"} :
                \* the call sees the three files at one age
                cleanup_call([name \in DOMAIN ChannelFiles |-> a], MaxAge - 1, fails)
          /\ monitor' = [monitor EXCEPT !.pc = "sleep"]
       \/ /\ monitor_raises("Exception")
          /\ UNCHANGED <<files, cleaned>>
    /\ UNCHANGED <<sequence_id, last_read_sequence, state_manager, call, peer,
                   state_history, result_history, returned_seq, reported, polled,
                   gate, validated, waiter>>

\* `await asyncio.sleep(1.0)`, then the test of `while self._running`; a
\* cancelled task gets CancelledError in the sleep
monitor_sleep ==
    /\ monitor.pc = "sleep"
    /\ monitor' = IF monitor.cancel THEN [monitor EXCEPT !.pc = "cancelled"]
                  ELSE IF monitor.running
                  THEN [monitor EXCEPT !.pc = "check", !.raised = FALSE]
                  ELSE [monitor EXCEPT !.pc = "ended"]
    /\ UNCHANGED <<files, sequence_id, last_read_sequence, state_manager, call,
                   peer, state_history, result_history, returned_seq, reported,
                   polled, gate, cleaned, validated, waiter>>

monitor_game_state ==
    \/ monitor_check
    \/ monitor_summary
    \/ monitor_cleanup
    \/ monitor_sleep

(***************************************************************************)
(* BalatroStateManager.wait_for_state_change.  One turn of its loop is one *)
(* step: the test of the clock and is_state_changed run with no suspension *)
(* between them.  The coroutine runs only while execute_action and the     *)
(* monitor task are suspended or ready to run, never in the middle of an   *)
(* iteration of the monitor.                                               *)
(***************************************************************************)
\* `start_time = asyncio.get_event_loop().time()` and the first turn of the
\* loop, which the call runs before it is ever suspended
wait_for_state_change_begin ==
    /\ waiter.pc \in {"none", "done"}
    /\ LoopFree
    /\ monitor.pc \notin {"summary", "cleanup"}
    /\ state_changed_call
    /\ waiter' = [pc |-> IF Pulled.state_changed THEN "done" ELSE "sleep",
                  elapsed |-> 0, ret |-> Pulled.state_changed,
                  since |-> state_manager.last_update_time]
    /\ UNCHANGED <<files, sequence_id, call, peer, result_history, gate,
                   monitor, cleaned, validated>>

\* a later turn: `while (time() - start_time) < timeout_seconds: if await
\* self.is_state_changed(): return True`, else the sleep begins
wait_for_state_change_poll ==
    /\ waiter.pc = "poll"
    /\ LoopFree
    /\ monitor.pc \notin {"summary", "cleanup"}
    /\ IF waiter.elapsed >= WaitTicks
       THEN /\ waiter' = [waiter EXCEPT !.pc = "done", !.ret = FALSE]
            /\ UNCHANGED <<last_read_sequence, state_manager, state_history,
                           returned_seq, reported, polled>>
       ELSE /\ state_changed_call
            /\ waiter' = IF Pulled.state_changed
                         THEN [waiter EXCEPT !.pc = "done", !.ret = TRUE]
                         ELSE [waiter EXCEPT !.pc = "sleep"]
    /\ UNCHANGED <<files, sequence_id, call, peer, result_history, gate,
                   monitor, cleaned, validated>>

\* asyncio.sleep(0.1): at least one poll interval passes
wait_for_state_change_sleep ==
    /\ waiter.pc = "sleep"
    /\ \E t \in (waiter.elapsed + 1)..WaitTicks :
           waiter' = [waiter EXCEPT !.pc = "poll", !.elapsed = t]
    /\ UNCHANGED <<files, sequence_id, last_read_sequence, state_manager, call,
                   peer, state_history, result_history, returned_seq, reported,
                   polled, gate, monitor, cleaned, validated>>

(***************************************************************************)
(* The peer process.                                                       *)
(***************************************************************************)
\* state envelopes that parse into a snapshot
ValidStateEnvelopes ==
    {Envelope(seq, GAME_STATE, data, 0) : seq \in 1..MaxPeerSeq, data \in Snapshots}

\* what the peer, or anything else that writes the directory, may leave in
\* the state file
StateEnvelopes ==
    ValidStateEnvelopes
    \cup {Envelope(seq, GAME_STATE, data, 0) :
              seq \in 1..MaxPeerSeq, data \in {NoData, BadData}}
    \cup {Envelope(seq, ACTION_RESULT, SnapHand, 0) : seq \in 1..MaxPeerSeq}
    \cup {Garbage}

\* the peer replaces the state file (write to a temporary file, rename)
peer_write_state(envelope) ==
    /\ game_state_file' = envelope
    /\ UNCHANGED <<actions_file, action_results_file, temp_file, sequence_id,
                   last_read_sequence, state_manager, call, peer, state_history,
                   result_history, returned_seq, reported, polled, gate, monitor, cleaned, validated,
                   waiter>>

\* a peer that keeps the contract publishes each snapshot under the
\* sequence id after the one on file
peer_publish_state(data) ==
    LET seq == IF game_state_file.kind = "envelope"
               THEN game_state_file.sequence_id + 1 ELSE 1
    IN /\ seq <= MaxPeerSeq
       /\ peer_write_state(Envelope(seq, GAME_STATE, data, 0))

\* the peer reads a command it has not seen and starts to execute it
peer_take_command ==
    /\ ~peer.busy
    /\ actions_file.kind = "envelope"
    /\ actions_file.sequence_id > peer.taken
    /\ peer' = [taken |-> actions_file.sequence_id, busy |-> TRUE]
    /\ UNCHANGED <<files, sequence_id, last_read_sequence, state_manager, call,
                   state_history, result_history, returned_seq, reported, polled,
                   gate, monitor, cleaned, validated, waiter>>

\* the peer publishes the result of the command it took, under a sequence
\* id matching the command's or newer
peer_write_result(seq, mtype, data) ==
    /\ peer.busy
    /\ seq >= peer.taken
    /\ action_results_file' = Envelope(seq, mtype, data, peer.taken)
    /\ peer' = [peer EXCEPT !.busy = FALSE]
    /\ UNCHANGED <<game_state_file, actions_file, temp_file, sequence_id,
                   last_read_sequence, state_manager, call, state_history,
                   result_history, returned_seq, reported, polled, gate, monitor, cleaned, validated,
                   waiter>>

\* something replaces a file of the directory by a link that leads out of
\* it; the command file and its temporary sibling only between two calls
link_outside(name) ==
    /\ name \in {"actions", "temp"} => call.pc = "idle"
    /\ game_state_file' = IF name = "game_state" THEN Link ELSE game_state_file
    /\ actions_file' = IF name = "actions" THEN Link ELSE actions_file
    /\ temp_file' = IF name = "temp" THEN Link ELSE temp_file
    /\ action_results_file' =
           IF name = "action_results" THEN Link ELSE action_results_file
    /\ UNCHANGED <<sequence_id, last_read_sequence, state_manager, call, peer,
                   state_history, result_history, returned_seq, reported, polled,
                   gate, monitor, cleaned, validated, waiter>>

(***************************************************************************)
(* Specifications.  execute_action touches the state file and the cache    *)
(* only through get_current_state, and the state cache touches nothing of  *)
(* the command and result files, so the two halves are also checked apart: *)
(* SpecCache is the state file with its readers, SpecExec is               *)
(* execute_action with the peer that answers it.                           *)
(***************************************************************************)
NextCache ==
    \/ get_current_state
    \/ is_state_changed
    \/ \E envelope \in StateEnvelopes : peer_write_state(envelope)

NextExec ==
    \/ \E action \in Actions : execute_action_begin(action)
    \/ write_action_open
    \/ write_action_dump
    \/ write_action_replace
    \/ wait_for_action_result_poll
    \/ read_action_result_unlink
    \/ wait_for_action_result_sleep
    \/ \E data \in Snapshots : peer_publish_state(data)
    \/ peer_take_command
    \/ \E seq \in 1..MaxPeerSeq, data \in PeerResults :
          peer_write_result(seq, ACTION_RESULT, data)
    \/ \E seq \in 1..MaxPeerSeq : peer_write_result(seq, GAME_STATE, ResOk)

Next == NextCache \/ NextExec

(***************************************************************************)
(* update_state as a function of the cache and its argument: any cache,    *)
(* any snapshot.  `accepted` holds the argument of the last call.          *)
(***************************************************************************)
\* SnapHand with one field of the projection, or one collection, changed
VariedSnapshots ==
    Snapshots \cup
    {[SnapHand EXCEPT !.session_id = "s2"],
     [SnapHand EXCEPT !.current_phase = SCORING],
     [SnapHand EXCEPT !.ante = 2],
     [SnapHand EXCEPT !.money = 5],
     [SnapHand EXCEPT !.hands_remaining = 0],
     [SnapHand EXCEPT !.discards_remaining = 0],
     [SnapHand EXCEPT !.hand_cards = <<"c1">>],
     [SnapHand EXCEPT !.jokers = <<>>],
     [SnapHand EXCEPT !.post_hand_joker_reorder_available = TRUE],
     [SnapHand EXCEPT !.consumables = <<[id |-> "t1"]>>],
     [SnapHand EXCEPT !.shop_contents = <<[index |-> 0, cost |-> 9]>>]}

InitUpdate ==
    /\ game_state_file = Absent
    /\ actions_file = Absent
    /\ action_results_file = Absent
    /\ temp_file = Absent
    /\ sequence_id = 0
    /\ last_read_sequence = [game_state |-> 0, action_result |-> 0]
    /\ \E state \in VariedSnapshots \cup {None}, changed \in BOOLEAN :
           state_manager = Cache(state, IF state = None THEN 0 ELSE 1, changed)
    /\ call = Idle
    /\ peer = [taken |-> 0, busy |-> FALSE]
    /\ gs_read = [ret |-> "none", seq |-> 0, before |-> 0, prev |-> 0]
    /\ ar_read = [ret |-> "none", seq |-> 0, before |-> 0, prev |-> 0]
    /\ returned_seq = [game_state |-> 0, action_result |-> 0]
    /\ accepted = None
    /\ logged = None
    /\ handed = {}
    /\ reported = 0
    /\ polled = [ret |-> FALSE, changes |-> 0]
    /\ fetched = NotFetched
    /\ monitor = NotStarted
    /\ waiter = NotWaiting
    /\ cleaned = None
    /\ validated = None
    /\ gate = None

\* BalatroStateManager.update_state(new_state)
update_state_call(new_state) ==
    /\ state_manager.last_update_time <= MaxUpdates
    /\ state_manager' = update_state(state_manager, new_state)
    /\ accepted' = new_state
    /\ logged' = update_state_log(state_manager, new_state)
    /\ UNCHANGED <<files, sequence_id, last_read_sequence, call, peer, gs_read,
                   result_history, returned_seq, reported, polled, fetched,
                   gate, monitor, cleaned, validated, waiter>>

NextUpdate == \E new_state \in VariedSnapshots : update_state_call(new_state)

SpecUpdate == InitUpdate /\ [][NextUpdate]_vars

(***************************************************************************)
(* validate_action as a function of the action and the snapshot.           *)
(***************************************************************************)
\* every action type of the schema, and one the handler has no rule for
ActionTypes ==
    action_validators \cup {"skip_pack"}

CardSelections == {<<>>, <<0>>, <<0, 1>>, <<2>>, <<-1>>, <<0, -1>>}

Orders == {<<>>, <<0, 1>>, <<0, 0, 1>>, <<0, 1, 3>>, <<2, 0, 1>>, <<0, 1, 2>>}

GateActions ==
    {[action_type |-> "play_hand", card_indices |-> sel] : sel \in CardSelections}
    \cup {[action_type |-> "discard_cards", card_indices |-> sel] :
              sel \in CardSelections}
    \cup {[action_type |-> "buy_item", shop_index |-> i] : i \in {-1, 0, 1}}
    \cup {[action_type |-> "sell_joker", joker_index |-> i] : i \in {-1, 0, 3}}
    \cup {[action_type |-> "sell_consumable", consumable_index |-> i] :
              i \in {-1, 0, 1}}
    \cup {[action_type |-> "reorder_jokers", new_order |-> order] : order \in Orders}
    \cup {[action_type |-> "use_consumable", item_id |-> id] : id \in {"t1", "t9"}}
    \cup {[action_type |-> type] :
              type \in {"go_to_shop", "select_blind", "select_pack_offer",
                        "reroll_boss", "reroll_shop", "sort_hand_by_rank",
                        "sort_hand_by_suit", "skip_pack"}}

GateStates ==
    {[session_id |-> "s1", current_phase |-> phase, ante |-> 1, money |-> money,
      hands_remaining |-> hands, discards_remaining |-> discards,
      hand_cards |-> hand, jokers |-> jokers, consumables |-> consumables,
      shop_contents |-> shop, available_actions |-> available,
      post_hand_joker_reorder_available |-> reorder] :
        phase \in {HAND_SELECTION, SHOP, BLIND_SELECTION, SCORING},
        money \in {2, 3}, hands \in {0, 1}, discards \in {0, 1},
        hand \in {<<>>, <<"c1", "c2">>},
        jokers \in {<<>>, <<"j1", "j2", "j3">>},
        consumables \in {<<>>, <<[id |-> "t1"]>>},
        shop \in {<<>>, <<[index |-> 0, cost |-> 3]>>},
        available \in {{}, ActionTypes},
        reorder \in BOOLEAN}

\* a validate_action call about to be made: its arguments
InitGate ==
    /\ game_state_file = Absent
    /\ actions_file = Absent
    /\ action_results_file = Absent
    /\ temp_file = Absent
    /\ sequence_id = 0
    /\ last_read_sequence = [game_state |-> 0, action_result |-> 0]
    /\ state_manager = Cache(None, 0, FALSE)
    /\ call = Idle
    /\ peer = [taken |-> 0, busy |-> FALSE]
    /\ gs_read = [ret |-> "none", seq |-> 0, before |-> 0, prev |-> 0]
    /\ ar_read = [ret |-> "none", seq |-> 0, before |-> 0, prev |-> 0]
    /\ returned_seq = [game_state |-> 0, action_result |-> 0]
    /\ accepted = None
    /\ logged = None
    /\ handed = {}
    /\ reported = 0
    /\ polled = [ret |-> FALSE, changes |-> 0]
    /\ fetched = NotFetched
    /\ monitor = NotStarted
    /\ waiter = NotWaiting
    /\ cleaned = None
    /\ validated = None
    /\ \E action \in GateActions, current_state \in GateStates :
           gate = [kind |-> "asked", action |-> action, state |-> current_state,
                   ret |-> FALSE, consulted |-> FALSE, raised |-> FALSE]

\* BalatroActionHandler.validate_action(action, current_state)
validate_action_call ==
    /\ gate.kind = "asked"
    /\ gate' = [gate EXCEPT
                  !.kind = "answered",
                  !.ret = validate_action_try(gate.action, gate.state).ret,
                  !.raised = validate_action_try(gate.action, gate.state).kind = "raised",
                  !.consulted = ValidatorConsulted(gate.action, gate.state)]
    /\ UNCHANGED <<files, sequence_id, last_read_sequence, state_manager, call,
                   peer, state_history, result_history, returned_seq, reported,
                   polled, monitor, cleaned, validated, waiter>>

NextGate == validate_action_call

SpecGate == InitGate /\ [][NextGate]_vars

\* actions built as GameAction(action_type=...), without the member the
\* rule of their type reads, and actions in which that member holds None
MalformedActions ==
    {[action_type |-> type] :
         type \in {"play_hand", "discard_cards", "buy_item", "sell_joker",
                   "sell_consumable", "reorder_jokers", "use_consumable"}}
    \cup {[action_type |-> type, is_none |-> {"card_indices"}] :
              type \in {"play_hand", "discard_cards"}}
    \cup {[action_type |-> "buy_item", is_none |-> {"shop_index"}],
          [action_type |-> "sell_joker", is_none |-> {"joker_index"}],
          [action_type |-> "sell_consumable", is_none |-> {"consumable_index"}],
          [action_type |-> "reorder_jokers", is_none |-> {"new_order"}]}

\* a validate_action call about to be made on a malformed action, or on one
\* well-formed action of each kind
InitRule ==
    /\ game_state_file = Absent
    /\ actions_file = Absent
    /\ action_results_file = Absent
    /\ temp_file = Absent
    /\ sequence_id = 0
    /\ last_read_sequence = [game_state |-> 0, action_result |-> 0]
    /\ state_manager = Cache(None, 0, FALSE)
    /\ call = Idle
    /\ peer = [taken |-> 0, busy |-> FALSE]
    /\ gs_read = [ret |-> "none", seq |-> 0, before |-> 0, prev |-> 0]
    /\ ar_read = [ret |-> "none", seq |-> 0, before |-> 0, prev |-> 0]
    /\ returned_seq = [game_state |-> 0, action_result |-> 0]
    /\ accepted = None
    /\ logged = None
    /\ handed = {}
    /\ reported = 0
    /\ polled = [ret |-> FALSE, changes |-> 0]
    /\ fetched = NotFetched
    /\ monitor = NotStarted
    /\ waiter = NotWaiting
    /\ cleaned = None
    /\ validated = None
    /\ \E current_state \in GateStates :
          \/ \E action \in MalformedActions :
                gate = [kind |-> "asked", action |-> action, state |-> current_state,
                        ret |-> FALSE, consulted |-> FALSE, raised |-> FALSE]
          \/ \E action \in {ActPlay, ActBuy, [action_type |-> "skip_pack"]} :
                gate = [kind |-> "asked", action |-> action, state |-> current_state,
                        ret |-> FALSE, consulted |-> FALSE, raised |-> FALSE]

SpecRule == InitRule /\ [][validate_action_call]_vars

Spec == Init /\ [][Next]_vars

SpecCache == Init /\ [][NextCache]_vars

SpecExec == Init /\ [][NextExec]_vars

\* execute_action with a peer that also leaves envelopes whose data lacks
\* required fields
NextMalformed ==
    \/ NextExec
    \/ \E seq \in 1..MaxPeerSeq, data \in {NoData, BadData} :
          peer_write_result(seq, ACTION_RESULT, data)
    \/ \E seq \in 1..MaxPeerSeq :
          peer_write_state(Envelope(seq, GAME_STATE, BadData, 0))

SpecMalformed == Init /\ [][NextMalformed]_vars

\* execute_action in a directory whose files may turn into links, with a
\* peer that publishes one snapshot and answers every command with success
NextCheck ==
    \/ \E action \in Actions : execute_action_begin(action)
    \/ write_action_open
    \/ write_action_dump
    \/ write_action_replace
    \/ wait_for_action_result_poll
    \/ read_action_result_unlink
    \/ wait_for_action_result_sleep
    \/ peer_publish_state(SnapHand)
    \/ peer_take_command
    \/ \E seq \in 1..MaxPeerSeq : peer_write_result(seq, ACTION_RESULT, ResOk)
    \/ \E name \in {"game_state", "actions", "temp", "action_results"} :
          link_outside(name)

SpecCheck == Init /\ [][NextCheck]_vars

\* the state cache over a state file that may turn into a link
NextPoll ==
    \/ get_current_state
    \/ is_state_changed
    \/ \E envelope \in StateEnvelopes : peer_write_state(envelope)
    \/ link_outside("game_state")

SpecPoll == Init /\ [][NextPoll]_vars

\* a result of the peer that reports a failure in the words execute_action
\* uses for its own timeout
ResTimeout ==
    [success |-> FALSE, error_message |-> "Timeout waiting for action result",
     new_state |-> None]

\* execute_action with a peer that answers with success or with ResTimeout
NextTimeout ==
    \/ \E action \in Actions : execute_action_begin(action)
    \/ write_action_open
    \/ write_action_dump
    \/ write_action_replace
    \/ wait_for_action_result_poll
    \/ read_action_result_unlink
    \/ wait_for_action_result_sleep
    \/ peer_publish_state(SnapHand)
    \/ peer_take_command
    \/ \E seq \in 1..MaxPeerSeq, data \in {ResOk, ResTimeout} :
          peer_write_result(seq, ACTION_RESULT, data)

SpecTimeout == Init /\ [][NextTimeout]_vars

\* the server with its monitor task and a peer that publishes snapshots;
\* the event loop resumes a task that can run
NextMonitor ==
    \/ server_start
    \/ server_stop
    \/ monitor_check
    \/ monitor_summary
    \/ monitor_cleanup
    \/ monitor_sleep
    \/ \E data \in {SnapHand, SnapShop} : peer_publish_state(data)

SpecMonitor == Init /\ [][NextMonitor]_vars /\ WF_vars(monitor_game_state)

\* a wait_for_state_change call beside the monitor task, with a peer that
\* publishes snapshots
NextWait ==
    \/ wait_for_state_change_begin
    \/ wait_for_state_change_poll
    \/ wait_for_state_change_sleep
    \/ server_start
    \/ monitor_check
    \/ monitor_summary
    \/ monitor_cleanup
    \/ monitor_sleep
    \/ \E data \in {SnapHand, SnapShop} : peer_publish_state(data)

SpecWait == Init /\ [][NextWait]_vars

(***************************************************************************)
(* cleanup_old_files as a function of the directory, the ages, the limit   *)
(* and the system call that fails.                                         *)
(***************************************************************************)
InitCleanup ==
    /\ game_state_file \in {Absent, Garbage, Link}
    /\ actions_file \in {Absent, Garbage, Link}
    /\ action_results_file \in {Absent, Garbage, Link}
    /\ temp_file = Absent
    /\ sequence_id = 0
    /\ last_read_sequence = [game_state |-> 0, action_result |-> 0]
    /\ state_manager = Cache(None, 0, FALSE)
    /\ call = Idle
    /\ peer = [taken |-> 0, busy |-> FALSE]
    /\ gs_read = [ret |-> "none", seq |-> 0, before |-> 0, prev |-> 0]
    /\ ar_read = [ret |-> "none", seq |-> 0, before |-> 0, prev |-> 0]
    /\ returned_seq = [game_state |-> 0, action_result |-> 0]
    /\ accepted = None
    /\ logged = None
    /\ handed = {}
    /\ reported = 0
    /\ polled = [ret |-> FALSE, changes |-> 0]
    /\ fetched = NotFetched
    /\ monitor = NotStarted
    /\ waiter = NotWaiting
    /\ cleaned = None
    /\ validated = None
    /\ gate = None

\* BalatroFileIO.cleanup_old_files(max_age_seconds), called once
cleanup_old_files_call ==
    /\ cleaned = None
    /\ \E age \in Ages, max_age_seconds \in 0..(MaxAge - 1),
          fails \in {"none", "game_state", "actions", "action_results"} :
            cleanup_call(age, max_age_seconds, fails)
    /\ UNCHANGED <<sequence_id, last_read_sequence, state_manager, call, peer,
                   state_history, result_history, returned_seq, reported, polled,
                   gate, monitor, validated, waiter>>

SpecCleanup == InitCleanup /\ [][cleanup_old_files_call]_vars

(***************************************************************************)
(* The constructor as a function of the base path and of what the file     *)
(* system answers.                                                         *)
(***************************************************************************)
\* every variable but `validated` as the constructor leaves it
InitChannel ==
    /\ game_state_file = Absent
    /\ actions_file = Absent
    /\ action_results_file = Absent
    /\ temp_file = Absent
    /\ sequence_id = 0
    /\ last_read_sequence = [game_state |-> 0, action_result |-> 0]
    /\ state_manager = Cache(None, 0, FALSE)
    /\ call = Idle
    /\ peer = [taken |-> 0, busy |-> FALSE]
    /\ gs_read = [ret |-> "none", seq |-> 0, before |-> 0, prev |-> 0]
    /\ ar_read = [ret |-> "none", seq |-> 0, before |-> 0, prev |-> 0]
    /\ returned_seq = [game_state |-> 0, action_result |-> 0]
    /\ accepted = None
    /\ logged = None
    /\ handed = {}
    /\ reported = 0
    /\ polled = [ret |-> FALSE, changes |-> 0]
    /\ fetched = NotFetched
    /\ monitor = NotStarted
    /\ waiter = NotWaiting
    /\ cleaned = None
    /\ gate = None

\* "a" * n
Pad(n) == [i \in 1..n |-> "a"]

\* one, two or three segments joined by either separator; an empty segment
\* gives a leading, a trailing or a doubled separator
Joined(segments) ==
    segments
    \cup {s1 \o <<sep>> \o s2 : s1 \in segments, sep \in Separators, s2 \in segments}
    \cup {s1 \o <<sep1>> \o s2 \o <<sep2>> \o s3 :
              s1 \in segments, sep1 \in Separators, s2 \in segments,
              sep2 \in Separators, s3 \in segments}

PathSegments ==
    {<<>>, <<"a">>, <<".">>, <<".", ".">>, <<".", ".", "a">>, <<"a", ".", ".">>}

BasePaths ==
    {Str(path) : path \in Joined(PathSegments)}
    \cup {Str(<<"a", c, "b">>) : c \in ControlCharacters \cup ReservedCharacters}
    \cup {Str(Pad(n)) :
              n \in {MAX_PATH_LENGTH - 1, MAX_PATH_LENGTH, MAX_PATH_LENGTH + 1}}
    \cup {Str(<<"a", "/">> \o Pad(MAX_PATH_LENGTH - 1))}
    \cup {[type |-> "NoneType"], [type |-> "int"]}

\* a constructor call about to be made: its argument, the platform, where
\* resolve() leads and what mkdir does
Constructions(values) ==
    {[kind |-> "asked", op |-> "BalatroFileIO", value |-> value,
      platform |-> platform, resolved |-> resolved, mkdir |-> mkdir,
      out |-> None] :
         value \in values, platform \in {"posix", "nt"},
         resolved \in {"inside", "outside", "outside_temp", "error"},
         mkdir \in {"ok", "OSError"}}

InitPath == InitChannel /\ validated \in Constructions(BasePaths)

\* BalatroFileIO(base_path)
BalatroFileIO_call ==
    /\ validated.kind = "asked"
    /\ validated.op = "BalatroFileIO"
    /\ validated' = [validated EXCEPT
                       !.kind = "answered",
                       !.out = BalatroFileIO_init(validated.value,
                                                  validated.platform,
                                                  validated.resolved,
                                                  validated.mkdir)]
    /\ UNCHANGED <<files, sequence_id, last_read_sequence, state_manager, call,
                   peer, state_history, result_history, returned_seq, reported,
                   polled, gate, monitor, cleaned, waiter>>

SpecPath == InitPath /\ [][BalatroFileIO_call]_vars

\* segments that are device names, in either case, and segments that only
\* contain one
DeviceSegments ==
    {<<"a">>, <<"C", "O", "N">>, <<"c", "o", "n">>, <<"n", "u", "l">>,
     <<"C", "o", "m", "9">>, <<"L", "P", "T", "1">>, <<"L", "P", "T", "0">>,
     <<"C", "O", "N", "S">>, <<"x", "C", "O", "N">>, <<"C", "O", "N", ".", "t">>}

InitDevice ==
    InitChannel
    /\ validated \in Constructions({Str(path) : path \in Joined(DeviceSegments)})

SpecDevice == InitDevice /\ [][BalatroFileIO_call]_vars

(***************************************************************************)
(* _validate_file_operation as a function of the file's path, of what it   *)
(* and the base directory resolve to, and of the file system's answers.    *)
(***************************************************************************)
\* base directories, as resolved
BaseDirectories == {<<"/", "s">>, <<"/", "s", "/", "d">>}

\* directories a file of the base directory may resolve into
ResolvedDirectories ==
    {<<"/", "s">>, <<"/", "s", "2">>, <<"/", "s", "/", "d">>,
     <<"/", "s", "/", "d", "2">>, <<"/", "s", "/", "e">>, <<"/", "t">>}

FileNames ==
    {<<"g", ".", "j", "s", "o", "n">>, <<"g", ".", "J", "S", "O", "N">>,
     <<"a", ".", "t", "m", "p">>, <<"x", ".", "t", "x", "t">>, <<"n">>,
     <<".", "j", "s", "o", "n">>, <<"g", ".", "j", "s", "o", "n", ".", "x">>}

FileOperations ==
    {[kind |-> "asked", op |-> "_validate_file_operation",
      file_path |-> base \o <<"/">> \o name,
      resolved_path |-> directory \o <<"/">> \o name,
      base_resolved |-> base, is_symlink |-> is_symlink, resolve |-> resolve,
      out |-> None] :
         base \in BaseDirectories, directory \in ResolvedDirectories,
         name \in FileNames, is_symlink \in BOOLEAN,
         resolve \in {"ok", "OSError"}}

InitOperation == InitChannel /\ validated \in FileOperations

\* self._validate_file_operation(file_path)
validate_file_operation_call ==
    /\ validated.kind = "asked"
    /\ validated.op = "_validate_file_operation"
    /\ validated' = [validated EXCEPT
                       !.kind = "answered",
                       !.out = [ok |-> validate_file_operation_paths(
                                          validated.file_path,
                                          validated.resolved_path,
                                          validated.base_resolved,
                                          validated.is_symlink,
                                          validated.resolve)]]
    /\ UNCHANGED <<files, sequence_id, last_read_sequence, state_manager, call,
                   peer, state_history, result_history, returned_seq, reported,
                   polled, gate, monitor, cleaned, waiter>>

SpecOperation == InitOperation /\ [][validate_file_operation_call]_vars

(***************************************************************************)
(* _validate_file_operation on a directory entry.  The base directory is   *)
(* already resolved, so the file's name is the only part of the path that  *)
(* can be a link, and Path.resolve() follows it: the resolved path is the  *)
(* link's target.  is_symlink() is asked of the resolved path, which is a   *)
(* link only if one has replaced it since resolve() returned.              *)
(***************************************************************************)
\* where a channel file that is a link may lead
LinkTargets ==
    {<<"/", "s", "/", "h", ".", "j", "s", "o", "n">>,
     <<"/", "s", "/", "d", "/", "g", ".", "j", "s", "o", "n">>,
     <<"/", "s", "/", "h">>,
     <<"/", "s", "2", "/", "g", ".", "j", "s", "o", "n">>,
     <<"/", "t", "/", "g", ".", "j", "s", "o", "n">>}

InitLink ==
    /\ InitChannel
    /\ \E name \in FileNames, is_link \in BOOLEAN, target \in LinkTargets,
          replaced \in BOOLEAN, resolve \in {"ok", "OSError"} :
         validated =
             [kind |-> "asked", op |-> "_validate_file_operation",
              file_path |-> <<"/", "s", "/">> \o name,
              is_link |-> is_link,
              \* `resolved_path = file_path.resolve()`
              resolved_path |-> IF is_link THEN target ELSE <<"/", "s", "/">> \o name,
              base_resolved |-> <<"/", "s">>,
              \* `resolved_path.is_symlink()`
              is_symlink |-> replaced,
              resolve |-> resolve, out |-> None]

SpecLink == InitLink /\ [][validate_file_operation_call]_vars

(***************************************************************************)
(* StateValidator.validate_state_transition as a function of the two       *)
(* snapshots.                                                              *)
(***************************************************************************)
\* snapshots of either session, at three antes, in every phase
TransitionStates ==
    {[SnapHand EXCEPT !.session_id = session, !.ante = ante,
                      !.current_phase = phase] :
         session \in {"s1", "s2"}, ante \in {0, 1, 2},
         phase \in {HAND_SELECTION, SHOP, BLIND_SELECTION, SCORING}}

InitTransition ==
    /\ InitChannel
    /\ \E old_state \in TransitionStates \cup {None}, new_state \in TransitionStates :
         validated = [kind |-> "asked", op |-> "validate_state_transition",
                      old_state |-> old_state, new_state |-> new_state,
                      out |-> None]

\* StateValidator.validate_state_transition(old_state, new_state)
validate_state_transition_call ==
    /\ validated.kind = "asked"
    /\ validated.op = "validate_state_transition"
    /\ validated' = [validated EXCEPT
                       !.kind = "answered",
                       !.out = [ret |-> validate_state_transition(
                                            validated.old_state,
                                            validated.new_state)]]
    /\ UNCHANGED <<files, sequence_id, last_read_sequence, state_manager, call,
                   peer, state_history, result_history, returned_seq, reported,
                   polled, gate, monitor, cleaned, waiter>>

SpecTransition == InitTransition /\ [][validate_state_transition_call]_vars

(***************************************************************************)
(* The steps that call read_game_state, and the one that calls             *)
(* read_action_result.                                                     *)
(***************************************************************************)
PullStep ==
    \/ get_current_state
    \/ is_state_changed
    \/ \E action \in Actions : execute_action_begin(action)

ResultReadStep == wait_for_action_result_poll /\ call.elapsed < TimeoutTicks

\* the file holds a state envelope that parses into a snapshot
ValidStateFile ==
    /\ game_state_file.kind = "envelope"
    /\ game_state_file.message_type = GAME_STATE
    /\ game_state_file.data \in Snapshots

\* the file holds a result envelope that parses into an ActionResult
ValidResultFile ==
    /\ action_results_file.kind = "envelope"
    /\ action_results_file.message_type = ACTION_RESULT
    /\ action_results_file.data \in PeerResults

(***************************************************************************)
(* C1.  A read never returns a value from an envelope whose sequence id is *)
(* less than or equal to the last id that read accepted before, and the    *)
(* ids of the values each read returns are strictly increasing.            *)
(***************************************************************************)
C1_ReturnedIdsIncrease ==
    /\ gs_read.ret = "value" =>
           gs_read.seq > gs_read.before /\ gs_read.seq > gs_read.prev
    /\ ar_read.ret = "value" =>
           ar_read.seq > ar_read.before /\ ar_read.seq > ar_read.prev

\* each read has returned a second value, after an earlier one
C1_Witness ==
    /\ gs_read.ret = "value" /\ gs_read.prev >= 1
    /\ ar_read.ret = "value" /\ ar_read.prev >= 1

(***************************************************************************)
(* C2.  When the file holds the valid envelope with id N that the read     *)
(* accepted last, a read returns nothing; when the file then holds a valid *)
(* envelope with id N+1, the next read accepts it and returns its payload. *)
(***************************************************************************)
C2_SequenceIdempotence ==
    [][/\ (PullStep /\ ValidStateFile /\ returned_seq.game_state >= 1
             /\ last_read_sequence.game_state = returned_seq.game_state)
          => /\ game_state_file.sequence_id = returned_seq.game_state
                  => gs_read'.ret = "none" /\ state_manager'.current_state
                                                 = state_manager.current_state
             /\ game_state_file.sequence_id = returned_seq.game_state + 1
                  => /\ gs_read'.ret = "value"
                     /\ accepted' = game_state_file.data
                     /\ last_read_sequence'.game_state = game_state_file.sequence_id
       /\ (ResultReadStep /\ ValidResultFile /\ returned_seq.action_result >= 1
             /\ last_read_sequence.action_result = returned_seq.action_result)
          => /\ action_results_file.sequence_id = returned_seq.action_result
                  => ar_read'.ret = "none"
             /\ action_results_file.sequence_id = returned_seq.action_result + 1
                  => /\ ar_read'.ret = "value"
                     /\ call'.result = action_results_file.data
                     /\ last_read_sequence'.action_result
                            = action_results_file.sequence_id
      ]_vars

\* id N was returned, a read of the same file returned nothing, and the
\* envelope with id N+1 is now returned
C2_Witness ==
    /\ gs_read.ret = "value"
    /\ gs_read.prev >= 1
    /\ gs_read.seq = gs_read.prev + 1
    /\ gs_read.before = gs_read.prev
    /\ accepted = game_state_file.data

(***************************************************************************)
(* C3.  execute_action writes a command only if, in the same call,         *)
(* get_current_state returned a snapshot and validate_action admitted the  *)
(* action against it; otherwise it returns at once and neither the         *)
(* sequence counter nor a file of the directory changes.                   *)
(***************************************************************************)
C3_Dispatched ==
    /\ call.state # None
    /\ call.action \in Actions
    /\ validate_action(call.action, call.state)

C3_GateBeforeWrite ==
    /\ [](call.pc # "idle" => C3_Dispatched)
    /\ [][/\ (actions_file' # actions_file \/ temp_file' # temp_file
                \/ sequence_id' # sequence_id)
             => C3_Dispatched' \/ C3_Dispatched
          /\ \A action \in Actions :
               (execute_action_begin(action)
                  /\ (state_manager'.current_state = None
                        \/ ~validate_action(action, state_manager'.current_state)))
               => /\ call'.pc = "idle"
                  /\ call'.result.success = FALSE
                  /\ UNCHANGED <<actions_file, temp_file, action_results_file,
                                 sequence_id>>
         ]_vars

\* the command of an admitted action is on file and its result awaited
C3_Witness ==
    /\ call.pc = "poll"
    /\ actions_file = message_data
    /\ validate_action(call.action, call.state)

(***************************************************************************)
(* C4.  The result execute_action returns is the peer's result for the     *)
(* command that same call wrote, never the result of an earlier command.   *)
(***************************************************************************)
C4_ResultAnswersOwnCommand ==
    (call.pc = "idle" /\ call.src # 0) => call.src = call.cmd

(***************************************************************************)
(* C5.  At every step of write_action the command file under its final     *)
(* name is absent or holds a complete command envelope: the envelope is    *)
(* complete in the temporary file before the rename, and the final name    *)
(* changes only in the rename, from the previous content to the new        *)
(* envelope.                                                               *)
(***************************************************************************)
C5_CompleteCommand(file) ==
    /\ file.kind = "envelope"
    /\ file.message_type = ACTION_COMMAND
    /\ file.data \in Actions
    /\ file.sequence_id \in 1..sequence_id

C5_AtomicVisibility ==
    /\ [](actions_file = Absent \/ C5_CompleteCommand(actions_file))
    /\ [](call.pc = "replace" => temp_file = message_data)
    /\ [][actions_file' # actions_file
            => /\ call.pc = "replace"
               /\ temp_file = message_data
               /\ actions_file' = message_data
               /\ C5_CompleteCommand(message_data)]_vars

\* the temporary file is incomplete while the final name still holds the
\* previous command
C5_Witness ==
    /\ call.pc = "dump"
    /\ temp_file = Partial
    /\ actions_file.kind = "envelope"
    /\ actions_file.sequence_id < call.cmd

(***************************************************************************)
(* C6.  The last-accepted sequence id changes only when the read returns a *)
(* value: a read that returns nothing leaves it as it was.                 *)
(***************************************************************************)
C6_RefusalKeepsLastAccepted ==
    /\ gs_read.ret # "value" => last_read_sequence.game_state = gs_read.before
    /\ ar_read.ret # "value" => last_read_sequence.action_result = ar_read.before

(***************************************************************************)
(* C7.  read_action_result deletes the result file exactly when it returns *)
(* a result: the file disappears only in a read that returns a result,     *)
(* every result handed to the caller leaves the file absent and is handed  *)
(* once, and a read that returns nothing leaves the file as it was.        *)
(***************************************************************************)
C7_DeleteOnReturn ==
    [][/\ (action_results_file # Absent /\ action_results_file' = Absent)
             => /\ call.pc = "unlink"
                /\ call'.pc = "idle"
                /\ call'.result = call.result
       /\ (call.pc # "idle" /\ call'.pc = "idle" /\ call'.src # 0)
             => /\ action_results_file' = Absent
                /\ call'.src \notin handed
       /\ (wait_for_action_result_poll /\ call'.pc # "unlink")
             => action_results_file' = action_results_file
      ]_vars

\* a result has been handed to the caller and the file is gone
C7_Witness ==
    /\ call.pc = "idle"
    /\ call.src # 0
    /\ call.result \in PeerResults
    /\ ar_read.ret = "value"
    /\ action_results_file = Absent

(***************************************************************************)
(* C8.  As stated: every true that is_state_changed returns answers        *)
(* exactly one projection change.                                          *)
(***************************************************************************)
C8_ExactlyOncePerChange == polled.ret => polled.changes = 1

(***************************************************************************)
(* C8, amended.  is_state_changed returns true exactly when at least one   *)
(* projection change has been applied since it last returned true, and the *)
(* flag is set exactly while such a change is unreported: after a change   *)
(* the next call returns true, a second immediate call returns false, and  *)
(* the changes applied between two calls share one true.                   *)
(***************************************************************************)
C8_TrueOncePerBatch ==
    /\ polled.ret <=> polled.changes >= 1
    /\ state_manager.state_changed <=> state_manager.last_update_time - reported >= 1

\* one true that answers two changes
C8_Witness == polled.ret /\ polled.changes >= 2

(***************************************************************************)
(* C9.  update_state replaces the cached snapshot, stamps the update time  *)
(* and sets the changed flag if and only if the new snapshot differs from  *)
(* the cached one on the projection; otherwise it leaves all three as they *)
(* were, even when collection contents differ.                             *)
(***************************************************************************)
C9_Projection(state) ==
    <<state.session_id, state.current_phase, state.ante, state.money,
      state.hands_remaining, state.discards_remaining, Len(state.hand_cards),
      Len(state.jokers), state.post_hand_joker_reorder_available>>

C9_Differs(old, new) == old = None \/ C9_Projection(old) # C9_Projection(new)

C9_UpdateIffProjectionDiffers ==
    [][\A new_state \in VariedSnapshots :
         update_state_call(new_state) =>
            IF C9_Differs(state_manager.current_state, new_state)
            THEN /\ state_manager'.current_state = new_state
                 /\ state_manager'.last_update_time > state_manager.last_update_time
                 /\ state_manager'.state_changed
            ELSE state_manager' = state_manager
      ]_vars

\* update_state was called with other collection contents under the same
\* projection, and the cache is as it was
C9_Witness ==
    /\ accepted # None
    /\ state_manager.current_state # None
    /\ accepted # state_manager.current_state
    /\ C9_Projection(accepted) = C9_Projection(state_manager.current_state)
    /\ ~state_manager.state_changed

(***************************************************************************)
(* C10.  After every state envelope that read_game_state accepts and the   *)
(* state cache processes, the cached snapshot equals that envelope's       *)
(* snapshot in full.                                                       *)
(***************************************************************************)
C10_CacheHoldsLatestAccepted ==
    accepted # None => state_manager.current_state = accepted

(***************************************************************************)
(* C11.  When update_state is handed a snapshot whose session id differs   *)
(* from the cached one's, or whose ante is lower, the state cache reports  *)
(* the violation: the update is logged as a warning, not as an ordinary    *)
(* update.                                                                 *)
(***************************************************************************)
C11_ViolationReported ==
    [][\A new_state \in VariedSnapshots :
         (update_state_call(new_state)
            /\ ~validate_state_transition(state_manager.current_state, new_state))
         => /\ logged' # None
            /\ logged'.level = "warning"
      ]_vars

(***************************************************************************)
(* C12.  validate_action rejects every action whose type is not in the     *)
(* snapshot's available_actions, whatever the specific rule would decide,  *)
(* and the specific rule is consulted only when the type is listed.        *)
(***************************************************************************)
C12_Listed == gate.action.action_type \in gate.state.available_actions

C12_MembershipFirst ==
    gate.kind = "answered" =>
        /\ ~C12_Listed => ~gate.ret /\ ~gate.consulted
        /\ gate.consulted => C12_Listed

\* an action the specific rule admits is rejected because it is not listed
C12_Witness ==
    /\ gate.kind = "answered"
    /\ ~C12_Listed
    /\ gate.action.action_type = "buy_item"
    /\ validate_buy_item(gate.action, gate.state)
    /\ ~gate.ret

(***************************************************************************)
(* C13.  For a listed action type, play_hand is admitted if and only if    *)
(* the phase is hand selection, hands_remaining > 0, the selection is not  *)
(* empty and every index i has 0 <= i < hand size; discard_cards likewise  *)
(* with discards_remaining.  Negative indices are rejected.                *)
(***************************************************************************)
C13_SelectionInHand ==
    /\ Len(gate.action.card_indices) >= 1
    /\ \A k \in 1..Len(gate.action.card_indices) :
          /\ gate.action.card_indices[k] >= 0
          /\ gate.action.card_indices[k] < Len(gate.state.hand_cards)

C13_PlayAndDiscard ==
    (gate.kind = "answered" /\ C12_Listed) =>
        /\ gate.action.action_type = "play_hand" =>
              (gate.ret <=> /\ gate.state.current_phase = HAND_SELECTION
                            /\ gate.state.hands_remaining > 0
                            /\ C13_SelectionInHand)
        /\ gate.action.action_type = "discard_cards" =>
              (gate.ret <=> /\ gate.state.current_phase = HAND_SELECTION
                            /\ gate.state.discards_remaining > 0
                            /\ C13_SelectionInHand)

\* a play that only a negative index keeps out
C13_Witness ==
    /\ gate.kind = "answered"
    /\ C12_Listed
    /\ gate.action = [action_type |-> "play_hand", card_indices |-> <<0, -1>>]
    /\ gate.state.current_phase = HAND_SELECTION
    /\ gate.state.hands_remaining > 0
    /\ Len(gate.state.hand_cards) = 2
    /\ ~gate.ret

(***************************************************************************)
(* C14.  For a listed action type, buy_item is admitted if and only if the *)
(* phase is shop, 0 <= shop_index < number of offerings and money >= the   *)
(* cost of the indexed offering; sell_joker and sell_consumable if and     *)
(* only if the phase is shop and the index is within the collection.       *)
(***************************************************************************)
C14_ShopActions ==
    (gate.kind = "answered" /\ C12_Listed) =>
        /\ gate.action.action_type = "buy_item" =>
              (gate.ret <=>
                 /\ gate.state.current_phase = SHOP
                 /\ gate.action.shop_index >= 0
                 /\ gate.action.shop_index < Len(gate.state.shop_contents)
                 /\ gate.state.money
                      >= gate.state.shop_contents[gate.action.shop_index + 1].cost)
        /\ gate.action.action_type = "sell_joker" =>
              (gate.ret <=> /\ gate.state.current_phase = SHOP
                            /\ gate.action.joker_index >= 0
                            /\ gate.action.joker_index < Len(gate.state.jokers))
        /\ gate.action.action_type = "sell_consumable" =>
              (gate.ret <=>
                 /\ gate.state.current_phase = SHOP
                 /\ gate.action.consumable_index >= 0
                 /\ gate.action.consumable_index < Len(gate.state.consumables))

\* a purchase in the shop that only the price keeps out
C14_Witness ==
    /\ gate.kind = "answered"
    /\ C12_Listed
    /\ gate.action = [action_type |-> "buy_item", shop_index |-> 0]
    /\ gate.state.current_phase = SHOP
    /\ Len(gate.state.shop_contents) = 1
    /\ gate.state.money < gate.state.shop_contents[1].cost
    /\ ~gate.ret

(***************************************************************************)
(* C15.  For reorder_jokers listed in available_actions, the action is     *)
(* admitted if and only if the reorder-window flag is set and new_order is *)
(* a permutation of 0..joker_count-1, whatever the phase: [0,0,1] and      *)
(* [0,1,3] against 3 jokers are rejected and [2,0,1] is accepted.          *)
(***************************************************************************)
C15_Permutation(order, count) ==
    /\ Len(order) = count
    /\ \A i \in 0..(count - 1) :
          Cardinality({k \in 1..Len(order) : order[k] = i}) = 1

C15_ReorderJokers ==
    (gate.kind = "answered" /\ C12_Listed
       /\ gate.action.action_type = "reorder_jokers") =>
        /\ gate.ret <=> /\ gate.state.post_hand_joker_reorder_available
                        /\ C15_Permutation(gate.action.new_order,
                                           Len(gate.state.jokers))
        /\ (gate.state.post_hand_joker_reorder_available
              /\ Len(gate.state.jokers) = 3) =>
              /\ gate.action.new_order = <<0, 0, 1>> => ~gate.ret
              /\ gate.action.new_order = <<0, 1, 3>> => ~gate.ret
              /\ gate.action.new_order = <<2, 0, 1>> => gate.ret

\* [0,0,1] against three jokers in the reorder window is rejected
C15_Witness ==
    /\ gate.kind = "answered"
    /\ C12_Listed
    /\ gate.action = [action_type |-> "reorder_jokers", new_order |-> <<0, 0, 1>>]
    /\ gate.state.post_hand_joker_reorder_available
    /\ Len(gate.state.jokers) = 3
    /\ gate.state.current_phase = SCORING
    /\ ~gate.ret

(***************************************************************************)
(* C16.  For the single-condition actions, when listed: go_to_shop,        *)
(* sort_hand_by_rank and sort_hand_by_suit are admitted if and only if the *)
(* phase is hand selection; select_blind and reroll_boss if and only if    *)
(* the phase is blind selection; reroll_shop if and only if the phase is   *)
(* shop.                                                                   *)
(***************************************************************************)
C16_PhaseOnly ==
    (gate.kind = "answered" /\ C12_Listed) =>
        /\ gate.action.action_type
              \in {"go_to_shop", "sort_hand_by_rank", "sort_hand_by_suit"}
            => (gate.ret <=> gate.state.current_phase = HAND_SELECTION)
        /\ gate.action.action_type \in {"select_blind", "reroll_boss"}
            => (gate.ret <=> gate.state.current_phase = BLIND_SELECTION)
        /\ gate.action.action_type = "reroll_shop"
            => (gate.ret <=> gate.state.current_phase = SHOP)

\* a listed reroll_shop outside the shop is rejected
C16_Witness ==
    /\ gate.kind = "answered"
    /\ C12_Listed
    /\ gate.action.action_type = "reroll_shop"
    /\ gate.state.current_phase = BLIND_SELECTION
    /\ ~gate.ret

(***************************************************************************)
(* C17.  Every blocking wait ends: wait_for_action_result returns the      *)
(* first result read_action_result yields, or returns nothing once the     *)
(* timeout has elapsed.  A call of execute_action that reached the wait    *)
(* therefore ends with the peer's result or with the timeout failure.      *)
(***************************************************************************)
C17_WaitReturnsResultOrNothing ==
    (call.pc = "idle" /\ call.cmd # 0
       /\ call.result # Failure("Failed to write action to file"))
    => \/ call.src # 0 /\ call.result \in PeerResults
       \/ call.result = Failure("Timeout waiting for action result")

(***************************************************************************)
(* C18.  write_action returns false and never raises when the opening or   *)
(* the writing of the temporary file, the rename or the serialization of   *)
(* the action fails: every call that leaves write_action without reaching  *)
(* the wait reports the failed write, and none an exception.               *)
(***************************************************************************)
C18_WriteFailureIsFalse ==
    [][(call.pc \in {"open", "dump", "replace"} /\ call'.pc = "idle")
          => /\ call'.result = Failure("Failed to write action to file")
             /\ actions_file' = actions_file
      ]_vars

\* the serialization failed with the temporary file open, and the call
\* reported a failed write
C18_Witness ==
    /\ call.pc = "idle"
    /\ call.result = Failure("Failed to write action to file")
    /\ temp_file = Partial

(***************************************************************************)
(* C19.  read_game_state and read_action_result return nothing and never   *)
(* raise when the file holds invalid JSON, an envelope of the wrong        *)
(* message type, or an envelope whose data lacks a required field.         *)
(***************************************************************************)
C19_ReadsNeverRaise == gs_read.ret # "raise" /\ ar_read.ret # "raise"

(***************************************************************************)
(* C20.  When the file check rejects the target file, read_game_state,     *)
(* write_action and read_action_result surface the error to their caller:  *)
(* none returns its ordinary `no data` or false, no file is read, written  *)
(* or deleted, and the sequence counter and the last-accepted ids are      *)
(* unchanged.                                                              *)
(***************************************************************************)
C20_Attempted(action) ==
    /\ execute_action_begin(action)
    /\ state_manager'.current_state # None
    /\ validate_action(action, state_manager'.current_state)

C20_RejectionSurfaces ==
    [][/\ (PullStep /\ game_state_file = Link)
          => /\ gs_read'.ret = "reject"
             /\ game_state_file' = Link
             /\ last_read_sequence'.game_state = last_read_sequence.game_state
             /\ state_manager' = state_manager
       /\ (ResultReadStep /\ action_results_file = Link)
          => /\ ar_read'.ret = "reject"
             /\ call'.pc = "idle"
             /\ call'.result = Failure("Internal error: file check")
             /\ UNCHANGED <<files, sequence_id, last_read_sequence>>
       /\ \A action \in Actions :
            (C20_Attempted(action) /\ (actions_file = Link \/ temp_file = Link))
            => /\ call'.pc = "idle"
               /\ call'.result = Failure("Internal error: file check")
               /\ UNCHANGED <<files, sequence_id>>
               /\ last_read_sequence'.action_result
                      = last_read_sequence.action_result
      ]_vars

\* the check of the temporary file alone refused an admitted action, and the
\* check of the result file ended a wait
C20_Witness ==
    /\ call.pc = "idle"
    /\ call.result = Failure("Internal error: file check")
    /\ temp_file = Link
    /\ actions_file # Link
    /\ state_manager.current_state # None
    /\ ar_read.ret = "reject"
    /\ sequence_id = 1

(***************************************************************************)
(* C21.  When the file check refuses the state file during a pull of the   *)
(* state cache, get_current_state and is_state_changed raise the error to  *)
(* their caller; they do not come back with the cached snapshot or with    *)
(* false.                                                                  *)
(***************************************************************************)
C21_ConfigurationErrorSurfaces ==
    (fetched.op \in {"get_current_state", "is_state_changed"}
        /\ fetched.read = "reject")
    => fetched.kind = "raised"

(***************************************************************************)
(* C22.  get_current_state never raises and returns the snapshot the cache *)
(* holds; when read_game_state returned nothing or raised, the snapshot,   *)
(* the update time and the changed flag are what they were before the      *)
(* call.                                                                   *)
(***************************************************************************)
C22_AlwaysReturnsCache ==
    /\ [](fetched.op = "get_current_state"
            => /\ fetched.kind = "returned"
               /\ fetched.ret = state_manager.current_state)
    /\ [][(fetched'.op = "get_current_state" /\ fetched'.read # "value")
            => state_manager' = state_manager]_vars

\* the file check refused the state file, and the call came back with the
\* snapshot of a cache whose flag is still set
C22_Witness ==
    /\ fetched.op = "get_current_state"
    /\ fetched.read = "reject"
    /\ fetched.ret \in Snapshots
    /\ state_manager.state_changed

(***************************************************************************)
(* C23.  execute_action never raises: whatever it hands to its caller is   *)
(* an ActionResult, and a missing snapshot, a refusal of the gate, a       *)
(* failed write of the command, a timeout and an exception inside the call *)
(* each come back with success = false and a message that names the cause. *)
(***************************************************************************)
C23_Messages ==
    {"No game state available", "Failed to write action to file",
     "Timeout waiting for action result"}
    \cup {NotValidMessage(action) : action \in Actions}
    \cup {InternalError(exc) : exc \in {"ValueError", "ValidationError"}}

C23_IsFailure(result) ==
    /\ DOMAIN result = {"success", "error_message", "new_state"}
    /\ result.success = FALSE
    /\ result.error_message \in C23_Messages

C23_NeverRaises ==
    /\ [](call.pc = "idle" /\ call.result # None
            => \/ C23_IsFailure(call.result)
               \/ call.src # 0 /\ call.result \in PeerResults)
    /\ [][/\ (call.pc = "idle" /\ call' # call /\ call'.pc = "idle")
              => /\ C23_IsFailure(call'.result)
                 /\ state_manager'.current_state = None
                       => call'.result.error_message = "No game state available"
          /\ (call.pc \in {"open", "dump", "replace"} /\ call'.pc = "idle")
              => C23_IsFailure(call'.result)
          /\ (call.pc = "poll" /\ call'.pc = "idle")
              => /\ C23_IsFailure(call'.result)
                 /\ call.elapsed >= TimeoutTicks
                       => call'.result.error_message
                              = "Timeout waiting for action result"
      ]_vars

\* the file check raised inside the call, and the caller holds a failure
C23_Witness ==
    /\ call.pc = "idle"
    /\ action_results_file = Link
    /\ ar_read.ret = "reject"
    /\ call.cmd >= 1
    /\ C23_IsFailure(call.result)
    /\ call.result.error_message = "Internal error: file check"

(***************************************************************************)
(* C24.  What execute_action returns for a timeout is a value that no      *)
(* refusal of the gate and no result written by the peer produces: a       *)
(* caller that holds the timeout's value holds it from a timeout.          *)
(***************************************************************************)
C24_TimeoutValue == Failure("Timeout waiting for action result")

C24_TimeoutDistinguishable ==
    /\ \A action \in Actions : Failure(NotValidMessage(action)) # C24_TimeoutValue
    /\ (call.pc = "idle" /\ call.result = C24_TimeoutValue) => call.src = 0

(***************************************************************************)
(* C25.  While the server runs, an iteration of the monitor loop that      *)
(* raised is followed by a further iteration; the loop ends only after the *)
(* running flag is cleared or the task is cancelled, never because of the  *)
(* exception.                                                              *)
(***************************************************************************)
C25_MonitorSurvives ==
    /\ (monitor.raised /\ monitor.pc # "check")
          ~> (monitor.pc = "check" \/ ~monitor.running)
    /\ [](monitor.pc \notin {"none", "check", "summary", "cleanup", "sleep"}
            => ~monitor.running \/ monitor.cancel)

\* the iteration raised after the cache reported a change, and the task is
\* in its sleep with the server running
C25_Witness ==
    /\ monitor.pc = "sleep"
    /\ monitor.raised
    /\ monitor.running
    /\ polled.ret
    /\ cleaned = None

(***************************************************************************)
(* C26.  cleanup_old_files never raises and treats the three files         *)
(* independently: a file is deleted if and only if it passes the file      *)
(* check, exists and is older than max_age, whatever happens with the      *)
(* other two; a file of age max_age or less stays.  The file whose own    *)
(* stat() or unlink() fails is left aside.                                 *)
(***************************************************************************)
C26_Deleted(name) ==
    cleaned.before[name].kind # "absent" /\ cleaned.after[name].kind = "absent"

C26_CleanupIndependent ==
    cleaned # None =>
        /\ ~cleaned.raised
        /\ \A name \in DOMAIN cleaned.before \ {cleaned.fails} :
              C26_Deleted(name) <=>
                 /\ validate_file_operation(cleaned.before[name])
                 /\ cleaned.before[name].kind # "absent"
                 /\ cleaned.age[name] > cleaned.max_age_seconds

(***************************************************************************)
(* C27.  The sequence counter starts at 0; a step changes it only by       *)
(* adding one, and the command written then carries the new value; a poll  *)
(* of the result file leaves it alone, whatever id the peer wrote; each    *)
(* command envelope that replaces actions.json carries a larger id than    *)
(* the one before it.                                                      *)
(***************************************************************************)
C27_CommandId(file) == IF file.kind = "envelope" THEN file.sequence_id ELSE 0

C27_LocalCounter ==
    /\ sequence_id = 0
    /\ [][/\ sequence_id' # sequence_id
              => sequence_id' = sequence_id + 1 /\ call'.cmd = sequence_id + 1
          /\ (gs_read' # gs_read \/ ar_read' # ar_read)
              => sequence_id' \in {sequence_id, sequence_id + 1}
          /\ ar_read' # ar_read => sequence_id' = sequence_id
          /\ (actions_file' # actions_file /\ actions_file'.kind = "envelope")
              => /\ actions_file'.sequence_id > C27_CommandId(actions_file)
                 /\ actions_file'.sequence_id = sequence_id
      ]_vars

\* the second command is on file with id 2, after the call for the first
\* one read the peer's id 2 while the counter stood at 1
C27_Witness ==
    /\ sequence_id = 2
    /\ actions_file.kind = "envelope"
    /\ actions_file.sequence_id = 2
    /\ returned_seq.action_result = 2
    /\ handed = {1}

(***************************************************************************)
(* C28.  The constructor rejects, and leaves no channel object behind, a   *)
(* base path that is empty or no string, that is longer than 260           *)
(* characters, that has a `..` segment anywhere between separators of      *)
(* either kind, or that contains a control character or one of             *)
(* < > " | ? *.  A plain path of exactly 260 characters passes, and an     *)
(* accepted relative path comes back as it was given.                      *)
(***************************************************************************)
\* `segment` stands in the path between separators or the ends
C28_HasSegment(path, segment) ==
    \E i \in 1..(Len(path) - Len(segment) + 1) :
        /\ SubSeq(path, i, i + Len(segment) - 1) = segment
        /\ i = 1 \/ path[i - 1] \in Separators
        /\ i + Len(segment) - 1 = Len(path) \/ path[i + Len(segment)] \in Separators

C28_MustReject(value) ==
    \/ value.type # "str"
    \/ value.chars = <<>>
    \/ Len(value.chars) > 260
    \/ C28_HasSegment(value.chars, <<".", ".">>)
    \/ \E i \in 1..Len(value.chars) :
          value.chars[i] \in ControlCharacters \cup ReservedCharacters

C28_BasePathValidation ==
    (validated.kind = "answered" /\ validated.op = "BalatroFileIO") =>
        /\ C28_MustReject(validated.value)
              => ~validated.out.ok /\ ~validated.out.constructed
        /\ (validated.value = Str(Pad(260)) /\ validated.resolved = "inside")
              => /\ validated.out.ok
                 /\ validated.out.constructed <=> validated.mkdir = "ok"
        /\ (/\ validated.out.ok
            /\ validated.value.chars[1] \notin Separators)
              => validated.out.ret
                    = [form |-> "original", of |-> validated.value.chars]

\* the path of exactly 260 characters was accepted and came back unchanged
C28_Witness ==
    /\ validated.kind = "answered"
    /\ validated.op = "BalatroFileIO"
    /\ validated.value = Str(Pad(260))
    /\ validated.out.constructed
    /\ validated.out.ret.of = Pad(260)

(***************************************************************************)
(* C29.  The constructor rejects every base path one of whose segments, in *)
(* whatever position, is a reserved device name in either case; a path of  *)
(* plain segments none of which is a device name is not rejected, though   *)
(* a segment may contain such a name.                                      *)
(***************************************************************************)
\* the segments of a path, split at either separator
C29_Segments(path) ==
    {SubSeq(path, b[1], b[2]) :
        b \in {c \in (1..(Len(path) + 1)) \X (0..Len(path)) :
                  /\ c[2] >= c[1] - 1
                  /\ c[1] = 1 \/ path[c[1] - 1] \in Separators
                  /\ c[2] = Len(path) \/ path[c[2] + 1] \in Separators
                  /\ \A k \in c[1]..c[2] : path[k] \notin Separators}}

C29_IsDeviceName(segment) ==
    [k \in 1..Len(segment) |-> Upper(segment[k])] \in DeviceNames

C29_DeviceNamesRejected ==
    (validated.kind = "answered" /\ validated.op = "BalatroFileIO") =>
        LET path == validated.value.chars
            segments == C29_Segments(path)
        IN /\ (\E segment \in segments : C29_IsDeviceName(segment))
                 => ~validated.out.ok
           /\ (/\ validated.resolved = "inside"
               /\ \A segment \in segments :
                     /\ segment # <<>>
                     /\ ~C29_IsDeviceName(segment)
                     /\ \A k \in 1..Len(segment) : segment[k] # ".")
                 => validated.out.ok

(***************************************************************************)
(* C30.  The file check accepts a file only if the segments of the         *)
(* resolved base directory are the first segments of the file's resolved   *)
(* path, and only if the file has no extension or one of .json and .tmp;   *)
(* a file in a sibling directory whose name begins with the name of the    *)
(* base directory is rejected.                                             *)
(***************************************************************************)
\* the segments of `prefix` are the first segments of `string`: the prefix
\* ends where a segment of the string ends
C30_SegmentPrefix(string, prefix) ==
    /\ Len(prefix) <= Len(string)
    /\ \A k \in 1..Len(prefix) : string[k] = prefix[k]
    /\ Len(string) = Len(prefix) \/ string[Len(prefix) + 1] = "/"

C30_Extension(path) ==
    [k \in 1..Len(PathSuffix(path)) |-> Lower(PathSuffix(path)[k])]

C30_DescendantsOnly ==
    (/\ validated.kind = "answered"
     /\ validated.op = "_validate_file_operation"
     /\ validated.out.ok)
    => /\ C30_SegmentPrefix(validated.resolved_path, validated.base_resolved)
       /\ C30_Extension(validated.file_path)
             \in {<<>>, <<".", "j", "s", "o", "n">>, <<".", "t", "m", "p">>}

(***************************************************************************)
(* C31.  The per-operation file check rejects every channel file that is a *)
(* symbolic link, also one whose target lies inside the base directory.    *)
(***************************************************************************)
C31_LinksRejected ==
    (/\ validated # None
     /\ validated.kind = "answered"
     /\ validated.op = "_validate_file_operation"
     /\ validated.is_link)
    => ~validated.out.ok

(***************************************************************************)
(* C32.  Each execute_action call writes the command file at most once and *)
(* runs at most one wait: its steps go forward only (open, dump, replace,  *)
(* then the wait, whose clock never goes back), the command file changes   *)
(* only in the one step from replace to the wait, and after a failed write *)
(* or a timeout the call returns a failure and leaves the command file.    *)
(***************************************************************************)
C32_Rank(pc) ==
    CASE pc = "idle" -> 0
      [] pc = "open" -> 1
      [] pc = "dump" -> 2
      [] pc = "replace" -> 3
      [] pc \in {"poll", "sleep", "unlink"} -> 4

C32_Forward ==
    (call.pc # "idle" /\ call'.pc # "idle")
    => /\ call'.cmd = call.cmd
       /\ C32_Rank(call'.pc) >= C32_Rank(call.pc)
       /\ C32_Rank(call.pc) < 4 /\ call'.pc # call.pc
             => C32_Rank(call'.pc) = C32_Rank(call.pc) + 1
       /\ C32_Rank(call.pc) = 4 => call'.elapsed >= call.elapsed

C32_OneWrite ==
    actions_file' # actions_file
    => /\ call.pc = "replace" /\ call'.pc = "poll"
       /\ actions_file' = Envelope(call.cmd, ACTION_COMMAND, call.action, 0)
       /\ call'.elapsed = 0

C32_FailureReturns ==
    /\ (call.pc \in {"open", "dump", "replace"} /\ call'.pc = "idle")
       => /\ call'.result.success = FALSE
          /\ actions_file' = actions_file
    /\ (call.pc = "poll" /\ call.elapsed >= TimeoutTicks /\ call' # call)
       => /\ call'.pc = "idle"
          /\ call'.result = Failure("Timeout waiting for action result")
          /\ actions_file' = actions_file

C32_NoRetry ==
    [][C32_Forward /\ C32_OneWrite /\ C32_FailureReturns]_vars

\* a later call has timed out, and the command it wrote once is on file
C32_Witness ==
    /\ call.pc = "idle"
    /\ call.cmd > 1
    /\ call.result = Failure("Timeout waiting for action result")
    /\ actions_file.kind = "envelope"
    /\ actions_file.sequence_id = call.cmd

(***************************************************************************)
(* C33.  validate_action never raises and changes nothing: on every action *)
(* that carries an action_type it returns, it returns false when the       *)
(* action-specific rule raised, and the snapshot, the action, the state    *)
(* cache and the channel's counters and files are after the call what they *)
(* were before.                                                            *)
(***************************************************************************)
C33_Returns ==
    gate.kind = "answered"
    => /\ ~gate.raised
       /\ RuleRaises(gate.action, gate.state) # "none" => gate.ret = FALSE

C33_Frame ==
    gate' # gate
    => /\ gate'.action = gate.action
       /\ gate'.state = gate.state
       /\ UNCHANGED <<files, sequence_id, last_read_sequence, state_manager>>

C33_NeverRaisesNorWrites == []C33_Returns /\ [][C33_Frame]_vars

\* the rule of a play_hand action has raised on a member that holds None
C33_Witness ==
    /\ gate.kind = "answered"
    /\ gate.action.action_type = "play_hand"
    /\ RuleRaises(gate.action, gate.state) = "TypeError"
    /\ gate.ret = FALSE

(***************************************************************************)
(* C34.  An action whose type has no rule in the dispatch table is         *)
(* admitted exactly when its type is in the snapshot's available_actions,  *)
(* and so is select_pack_offer, whose rule has no condition.               *)
(***************************************************************************)
C34_DefaultAdmit ==
    (/\ gate # None
     /\ gate.kind = "answered"
     /\ \/ gate.action.action_type \notin action_validators
        \/ gate.action.action_type = "select_pack_offer")
    => /\ ~gate.raised
       /\ gate.ret = (gate.action.action_type \in gate.state.available_actions)

\* select_pack_offer was admitted in a phase that is not the shop
C34_Witness ==
    /\ gate # None
    /\ gate.kind = "answered"
    /\ gate.action.action_type = "select_pack_offer"
    /\ gate.state.current_phase = SCORING
    /\ gate.ret

(***************************************************************************)
(* C35.  validate_state_transition(old, new) returns true exactly when old *)
(* is absent, or new has old's session_id and an ante that is not lower;   *)
(* the phases of the two snapshots do not enter the result.                *)
(***************************************************************************)
C35_TransitionRule ==
    (/\ validated # None
     /\ validated.kind = "answered"
     /\ validated.op = "validate_state_transition")
    => validated.out.ret =
           (\/ validated.old_state = None
            \/ /\ validated.new_state.session_id = validated.old_state.session_id
               /\ validated.new_state.ante >= validated.old_state.ante)

\* a step from the shop back to a hand, same session and ante, was accepted
C35_Witness ==
    /\ validated # None
    /\ validated.kind = "answered"
    /\ validated.op = "validate_state_transition"
    /\ validated.old_state # None
    /\ validated.old_state.current_phase = SHOP
    /\ validated.new_state.current_phase = HAND_SELECTION
    /\ validated.out.ret

(***************************************************************************)
(* C36.  Whenever execute_action dispatches a command, the action passes   *)
(* the gate on the snapshot of the latest envelope read_game_state         *)
(* accepted: its legal actions, shop offerings and consumables are the     *)
(* ones the gate consulted.                                                *)
(***************************************************************************)
C36_Dispatch == call.pc = "idle" /\ call'.pc = "open"

C36_GateOnLatestAccepted ==
    [][C36_Dispatch
         => /\ accepted' # None
            /\ validate_action(call'.action, accepted')]_vars

(***************************************************************************)
(* C37.  An execute_action call that returns because no snapshot is        *)
(* available or because the gate refused the action leaves the sequence    *)
(* counter, the command file with its temporary sibling, the result file   *)
(* and the last-accepted result sequence id as they were.                  *)
(***************************************************************************)
C37_EarlyReturnStep ==
    /\ \E action \in Actions : execute_action_begin(action)
    /\ call'.pc = "idle"
    /\ call'.result.error_message \in
           {"No game state available"}
           \cup {NotValidMessage(action) : action \in Actions}

C37_EarlyReturnFrame ==
    [][C37_EarlyReturnStep
         => /\ sequence_id' = sequence_id
            /\ actions_file' = actions_file
            /\ temp_file' = temp_file
            /\ action_results_file' = action_results_file
            /\ last_read_sequence'.action_result = last_read_sequence.action_result]_vars

\* the gate has refused a purchase while an earlier command and a result
\* of the peer are on file
C37_Witness ==
    /\ call.pc = "idle"
    /\ call.cmd = 0
    /\ call.result = Failure(NotValidMessage(ActBuy))
    /\ sequence_id >= 1
    /\ actions_file.kind = "envelope"
    /\ actions_file.sequence_id = sequence_id
    /\ action_results_file.kind = "envelope"

(***************************************************************************)
(* C38.  When write_action returns false the command file under its final  *)
(* name holds what it held before the call, or is still absent: from the   *)
(* start of the write to its failure no step touches actions.json.         *)
(***************************************************************************)
C38_Writing == call.pc \in {"open", "dump", "replace"}

C38_FailedWriteKeepsCommand ==
    [][(C38_Writing /\ call'.pc # "poll") => actions_file' = actions_file]_vars

\* the replace of a later command has failed: write_action returned false,
\* the temporary file holds the new envelope and actions.json the earlier one
C38_Witness ==
    /\ call.pc = "idle"
    /\ call.result = Failure("Failed to write action to file")
    /\ temp_file.kind = "envelope"
    /\ temp_file.sequence_id = call.cmd
    /\ actions_file.kind = "envelope"
    /\ actions_file.sequence_id < call.cmd

(***************************************************************************)
(* C39.  wait_for_state_change returns true whenever a projection change   *)
(* is applied to the state cache before its timeout expires, also while    *)
(* the monitor loop polls is_state_changed on the same cache: a turn of    *)
(* its loop that runs within the timeout, with a change applied since the  *)
(* call began, ends the call with true.                                    *)
(***************************************************************************)
C39_TurnInTime ==
    /\ waiter.pc = "poll"
    /\ waiter' # waiter
    /\ waiter.elapsed < WaitTicks

C39_ChangeReported ==
    [][(C39_TurnInTime /\ state_manager'.last_update_time > waiter.since)
         => (waiter'.pc = "done" /\ waiter'.ret)]_vars

====
